---- MODULE Spec2Model ----
(***************************************************************************)
(* MIHUB permission guard, rate limiter and multi-agent orchestrator.      *)
(*                                                                         *)
(* Three subsystems share this module, each with its own specification:    *)
(*   SpecEval  guardianRouter.checkPermission over a loaded catalog        *)
(*   SpecRL    checkRateLimit / cleanupRateLimitCache over a clock         *)
(*   SpecOrch  orchestrate: one turn, agent by agent                       *)
(* A specification leaves the variables of the other subsystems unchanged. *)
(***************************************************************************)
EXTENDS Integers, Sequences, FiniteSets, TLC

VARIABLES
  now,                 \* Date.now(), in milliseconds
  files,               \* the three JSON files under MIO_HUB_PATH
  apiIndexCache,       \* part_000:165
  permissionsCache,    \* part_000:166
  guardianConfigCache, \* part_000:167
  lastCacheUpdate,     \* part_000:168
  guardianLog,         \* lines of logs/api-guardian.log, oldest first
  lastEval,            \* the last call of a guardianRouter procedure: input and result
  loads,               \* history: when each cached part was read from its file
  rateLimitCache,      \* guardian.ts:109, key -> {count, resetAt}
  mioAgentLogs,        \* rows of mio_agent_logs written by logToGuardian
  rlCalls,             \* history: the checkRateLimit calls made so far
  lastAcquire,         \* the last checkRateLimit call: input and what it returned
  turns,               \* the orchestrate calls that run side by side, each at its position
  turn,                \* the orchestrate call in progress
  agentMessages,       \* rows of the agent_messages table, in insertion order
  openaiKey,           \* whether process.env.OPENAI_API_KEY is set
  lastCall,            \* the last call of a function that keeps no state: input and result
  retrying,            \* the callAgentWithRetry call in progress
  loading              \* the loadGuardianConfig calls in flight, and the load each cached part is from

vars == <<now, files, apiIndexCache, permissionsCache, guardianConfigCache,
          lastCacheUpdate, guardianLog, lastEval, loads, rateLimitCache,
          mioAgentLogs, rlCalls, lastAcquire, turns, turn, agentMessages, openaiKey, lastCall,
          retrying, loading>>

guardVars == <<files, apiIndexCache, permissionsCache, guardianConfigCache,
               lastCacheUpdate, guardianLog, lastEval, loads, loading>>
rlVars == <<rateLimitCache, rlCalls, lastAcquire, turns>>

----------------------------------------------------------------------------
(* Bounds of the model *)

\* longest rule list of the agent whose rules vary
MaxRules == 1
\* clock steps of one second taken in a behaviour of the rate limiter
MaxTicks == 3
\* checkRateLimit calls made in a behaviour of the rate limiter
MaxCalls == 3

----------------------------------------------------------------------------
(* Values *)

Null == [tag |-> "null"]
Undefined == "undefined"

Modes == {"read", "write"}
\* part_000:387
riskLevels == <<"low", "medium", "high">>
Risks == {riskLevels[i] : i \in 1..Len(riskLevels)}

\* ids the requests are drawn from: two agents of the permission table and one
\* that no table contains; two endpoint ids
TableAgentIds == {"mio_dev", "abacus"}
RequestAgentIds == TableAgentIds \cup {"ghost"}
EndpointIds == {"e1", "e2"}

\* Array.prototype.indexOf: 0-based position of the first occurrence, -1 if none
IndexOf(seq, x) ==
  IF \E i \in 1..Len(seq) : seq[i] = x
  THEN (CHOOSE i \in 1..Len(seq) : seq[i] = x /\ \A j \in 1..(i-1) : seq[j] # x) - 1
  ELSE -1

\* String.prototype.toUpperCase on the two modes
ToUpperCase(mode) == IF mode = "read" THEN "READ" ELSE "WRITE"

\* all sequences over S of length at most n
SeqUpTo(S, n) == UNION {[1..k -> S] : k \in 0..n}

----------------------------------------------------------------------------
(* API Guardian router: catalog cache, audit file, checkPermission *)

\* part_000:169
CACHE_TTL == 60000

\* a file of MIO_HUB_PATH: readable JSON, readable but malformed, or unreadable
JsonFile(v) == [tag |-> "json", value |-> v]
Malformed == [tag |-> "malformed"]
Unreadable == [tag |-> "unreadable"]

CacheFreshForever ==
  apiIndexCache # Null /\ permissionsCache # Null /\ guardianConfigCache # Null

\* part_000:173, the three caches are set and younger than the TTL
CacheFresh ==
  /\ apiIndexCache # Null /\ permissionsCache # Null /\ guardianConfigCache # Null
  /\ (now - lastCacheUpdate) < CACHE_TTL

LoadFailedFallsBack(a, p, c, parts) ==
  [threw |-> ~CacheFreshForever, readSource |-> TRUE, assigned |-> {},
   apiIndex |-> apiIndexCache, permissions |-> permissionsCache,
   config |-> guardianConfigCache, stamp |-> lastCacheUpdate]

\* part_000:190-193, the catch of loadGuardianConfig: the error is logged to the
\* console and a new Error is thrown; the caches hold what was assigned before
LoadFailed(a, p, c, parts) ==
  [threw |-> TRUE, readSource |-> TRUE, assigned |-> parts,
   apiIndex |-> a, permissions |-> p, config |-> c, stamp |-> lastCacheUpdate]

\* loadGuardianConfig, taken as one step: what it returns (or that it threw) and
\* what it leaves in the four cache variables.  The three reads are one
\* Promise.all, so an unreadable file throws before any assignment; the three
\* JSON.parse assignments then run in order and the first malformed file throws
\* after the earlier caches were already overwritten.
LoadGuardianConfig ==
  LET cached == [threw |-> FALSE, readSource |-> FALSE, assigned |-> {},
                 apiIndex |-> apiIndexCache, permissions |-> permissionsCache,
                 config |-> guardianConfigCache, stamp |-> lastCacheUpdate]
      failed(a, p, c, parts) == LoadFailed(a, p, c, parts)
  IN IF CacheFresh
     THEN cached
     ELSE IF \E f \in DOMAIN files : files[f] = Unreadable
     THEN failed(apiIndexCache, permissionsCache, guardianConfigCache, {})
     ELSE IF files.apiIndex = Malformed
     THEN failed(apiIndexCache, permissionsCache, guardianConfigCache, {})
     ELSE IF files.permissions = Malformed
     THEN failed(files.apiIndex.value, permissionsCache, guardianConfigCache, {"apiIndex"})
     ELSE IF files.config = Malformed
     THEN failed(files.apiIndex.value, files.permissions.value, guardianConfigCache,
                 {"apiIndex", "permissions"})
     ELSE [threw |-> FALSE, readSource |-> TRUE,
           assigned |-> {"apiIndex", "permissions", "config"},
           apiIndex |-> files.apiIndex.value, permissions |-> files.permissions.value,
           config |-> files.config.value, stamp |-> now]

\* history of the loads: the time each cached part was read from its file and
\* the time of the last load that returned, -1 for never
NoLoads == [readAt |-> [f \in {"apiIndex", "permissions", "config"} |-> -1],
            lastSuccess |-> -1]
\* no call of loadGuardianConfig is in flight and nothing was loaded; the calls
\* that read the source are numbered from 1 and 0 stands for no load; partial
\* holds the loads that threw after they had assigned a cache variable
NoLoading == [who |-> <<>>, count |-> 0, partial |-> {},
              origin |-> [f \in {"apiIndex", "permissions", "config", "stamp"} |-> 0]]
LoadsAfter(load) ==
  [readAt |-> [f \in DOMAIN loads.readAt |->
                 IF f \in load.assigned THEN now ELSE loads.readAt[f]],
   lastSuccess |-> IF load.readSource /\ ~load.threw THEN now ELSE loads.lastSuccess]

\* what a call of loadGuardianConfig saw and did, for the record of the call
LoadRecord(load) ==
  [at |-> now, readSource |-> load.readSource, threw |-> load.threw,
   cacheFull |-> /\ apiIndexCache # Null /\ permissionsCache # Null
                 /\ guardianConfigCache # Null,
   age |-> now - lastCacheUpdate,
   lastSuccess |-> loads.lastSuccess,
   readAt |-> LoadsAfter(load).readAt,
   sourceOk |-> \A f \in DOMAIN files : files[f].tag = "json",
   afterFailure |-> lastEval.op # "none" /\ lastEval.load.threw]

\* the four cache variables after the call
CachesAfter(load) ==
  /\ apiIndexCache' = load.apiIndex
  /\ permissionsCache' = load.permissions
  /\ guardianConfigCache' = load.config
  /\ lastCacheUpdate' = load.stamp
  /\ loads' = LoadsAfter(load)
  /\ UNCHANGED loading

\* permissions.agents.find(a => a.id === agentId): position of the first, 0 if none
FindAgent(agents, agentId) ==
  IF \E i \in 1..Len(agents) : agents[i].id = agentId
  THEN CHOOSE i \in 1..Len(agents) :
         agents[i].id = agentId /\ \A j \in 1..(i-1) : agents[j].id # agentId
  ELSE 0

\* svc.endpoints.find(e => e.id === endpointId)
FindInService(svc, endpointId) ==
  IF \E i \in 1..Len(svc.endpoints) : svc.endpoints[i].id = endpointId
  THEN CHOOSE i \in 1..Len(svc.endpoints) :
         /\ svc.endpoints[i].id = endpointId
         /\ \A j \in 1..(i-1) : svc.endpoints[j].id # endpointId
  ELSE 0

\* the loop over apiIndex.services with its break: the first service that has
\* the endpoint, and the endpoint's position in it; <<0, 0>> when none has it
FindEndpoint(apiIndex, endpointId) ==
  LET S == apiIndex.services
      has(i) == FindInService(S[i], endpointId) # 0
  IN IF \E i \in 1..Len(S) : has(i)
     THEN LET si == CHOOSE i \in 1..Len(S) : has(i) /\ \A j \in 1..(i-1) : ~has(j)
          IN <<si, FindInService(S[si], endpointId)>>
     ELSE <<0, 0>>

FindRuleAnyEndpoint(rules, endpointId) == IF Len(rules) > 0 THEN 1 ELSE 0

FindRuleLast(rules, endpointId) ==
  IF \E i \in 1..Len(rules) : rules[i].endpoint_id = endpointId
  THEN CHOOSE i \in 1..Len(rules) :
         /\ rules[i].endpoint_id = endpointId
         /\ \A j \in (i+1)..Len(rules) : rules[j].endpoint_id # endpointId
  ELSE 0

\* agent.rules.find(r => r.endpoint_id === endpointId)
FindRule(rules, endpointId) ==
  IF \E i \in 1..Len(rules) : rules[i].endpoint_id = endpointId
  THEN CHOOSE i \in 1..Len(rules) :
         /\ rules[i].endpoint_id = endpointId
         /\ \A j \in 1..(i-1) : rules[j].endpoint_id # endpointId
  ELSE 0

ModeAllowedAlways(rule, mode) == TRUE

\* rule.modes.includes(input.mode)
ModeAllowed(rule, mode) == mode \in rule.modes

RiskExceedsOrEquals(endpointRisk, maxRisk) ==
  IndexOf(riskLevels, endpointRisk) >= IndexOf(riskLevels, maxRisk)

\* endpointRiskIndex > maxRiskIndex
RiskExceeds(endpointRisk, maxRisk) ==
  IndexOf(riskLevels, endpointRisk) > IndexOf(riskLevels, maxRisk)

UnknownEndpointDenied(permissions) == FALSE

\* what the unknown-endpoint branch returns as `allowed`
UnknownEndpointAllowed(permissions) == permissions.defaults.unknown_endpoint.allow

BoolStr(b) == IF b THEN "true" ELSE "false"

\* a line of api-guardian.log
LogEntry(input, method, path, status, reason, risk, confirm) ==
  [timestamp |-> now, agent |-> input.agentId, endpoint_id |-> input.endpointId,
   method |-> method, path |-> path, status |-> status, reason |-> reason,
   risk_level |-> risk, require_confirmation |-> confirm]

\* the value of every deny branch
Denied(reason) ==
  [allowed |-> FALSE, reason |-> reason, require_confirmation |-> FALSE, endpoint |-> Null]

\* part_000:293-310, the agent is not in the permission table
UnknownAgentBranch(input) ==
  [branch |-> "unknown_agent",
   result |-> Denied("Unknown agent"),
   entry |-> LogEntry(input, ToUpperCase(input.mode), "", "denied",
                      "Unknown agent", Undefined, Undefined)]

\* part_000:324-341, no service has the endpoint
UnknownEndpointBranch(permissions, input) ==
  [branch |-> "unknown_endpoint",
   result |-> [allowed |-> UnknownEndpointAllowed(permissions),
               reason |-> "Unknown endpoint",
               require_confirmation |-> FALSE, endpoint |-> Null],
   entry |-> LogEntry(input, ToUpperCase(input.mode), "", "denied",
                      "Unknown endpoint", Undefined, Undefined)]

GrantedNoConfirmation(rule, endpoint, service) ==
  [allowed |-> TRUE, reason |-> "Permission granted",
   require_confirmation |-> FALSE,
   endpoint |-> [id |-> endpoint.id, method |-> endpoint.method, path |-> endpoint.path,
                 description |-> endpoint.description, risk |-> endpoint.risk,
                 base_url |-> service.base_url]]

\* part_000:424-436, the value of the allow branch
Granted(rule, endpoint, service) ==
  [allowed |-> TRUE, reason |-> "Permission granted",
   require_confirmation |-> rule.require_confirmation,
   endpoint |-> [id |-> endpoint.id, method |-> endpoint.method, path |-> endpoint.path,
                 description |-> endpoint.description, risk |-> endpoint.risk,
                 base_url |-> service.base_url]]

\* part_000:343-437, agent and endpoint are both known
KnownBranch(agent, service, endpoint, input) ==
  LET ri == FindRule(agent.rules, input.endpointId)
      denied(branch, reason, logReason) ==
        [branch |-> branch, result |-> Denied(reason),
         entry |-> LogEntry(input, endpoint.method, endpoint.path, "denied",
                            logReason, endpoint.risk, Undefined)]
  IN IF ri = 0
     THEN denied("no_rule", "No permission rule found for this endpoint",
                 "No permission rule found")
     ELSE
       LET rule == agent.rules[ri]
       IN IF ~ModeAllowed(rule, input.mode)
          THEN denied("mode", "Mode " \o input.mode \o " not allowed for this endpoint",
                      "Mode " \o input.mode \o " not allowed")
          ELSE IF RiskExceeds(endpoint.risk, rule.max_risk)
          THEN denied("risk",
                      "Risk level " \o endpoint.risk \o " exceeds maximum allowed "
                        \o rule.max_risk,
                      "Risk level " \o endpoint.risk \o " exceeds max allowed "
                        \o rule.max_risk)
          ELSE [branch |-> "allowed",
                result |-> Granted(rule, endpoint, service),
                entry |-> LogEntry(input, endpoint.method, endpoint.path, "allowed",
                                   Undefined, endpoint.risk,
                                   BoolStr(rule.require_confirmation))]

DecideEndpointFirst(permissions, apiIndex, input) ==
  LET ai == FindAgent(permissions.agents, input.agentId)
      loc == FindEndpoint(apiIndex, input.endpointId)
  IN IF loc[1] = 0 THEN UnknownEndpointBranch(permissions, input)
     ELSE IF ai = 0 THEN UnknownAgentBranch(input)
     ELSE KnownBranch(permissions.agents[ai], apiIndex.services[loc[1]],
                      apiIndex.services[loc[1]].endpoints[loc[2]], input)

\* the body of checkPermission after the catalog is loaded: the value returned
\* and the entry handed to logApiCall, branch by branch in the code's order
Decide(permissions, apiIndex, input) ==
  LET ai == FindAgent(permissions.agents, input.agentId)
      loc == FindEndpoint(apiIndex, input.endpointId)
  IN IF ai = 0 THEN UnknownAgentBranch(input)
     ELSE IF loc[1] = 0 THEN UnknownEndpointBranch(permissions, input)
     ELSE KnownBranch(permissions.agents[ai], apiIndex.services[loc[1]],
                      apiIndex.services[loc[1]].endpoints[loc[2]], input)

LogApiCallDropped(entry, appendOk) == guardianLog' = guardianLog

\* logApiCall: fs.appendFile adds the line, or fails and the error is swallowed
LogApiCall(entry, appendOk) ==
  guardianLog' = IF appendOk THEN Append(guardianLog, entry) ELSE guardianLog

NoEval == [op |-> "none"]

\* guardianRouter.checkPermission, one whole call, of one input
CheckPermissionOf(agentId, endpointId, mode, appendOk) ==
  LET input == [agentId |-> agentId, endpointId |-> endpointId, mode |-> mode]
      load == LoadGuardianConfig
  IN /\ CachesAfter(load)
     /\ IF load.threw
        THEN /\ guardianLog' = guardianLog
             /\ lastEval' = [op |-> "checkPermission", input |-> input, threw |-> TRUE,
                             error |-> "Failed to load Guardian configuration",
                             load |-> LoadRecord(load),
                             logBefore |-> Len(guardianLog)]
        ELSE LET d == Decide(load.permissions, load.apiIndex, input)
             IN /\ LogApiCall(d.entry, appendOk)
                /\ lastEval' = [op |-> "checkPermission", input |-> input,
                                threw |-> FALSE, branch |-> d.branch,
                                result |-> d.result, entry |-> d.entry,
                                appendOk |-> appendOk,
                                snapshot |-> [permissions |-> load.permissions,
                                              apiIndex |-> load.apiIndex],
                                load |-> LoadRecord(load),
                                logBefore |-> Len(guardianLog)]
     /\ UNCHANGED <<now, files, rateLimitCache, mioAgentLogs, rlCalls, lastAcquire, turns, turn, agentMessages, openaiKey, lastCall, retrying>>

\* guardianRouter.checkPermission, one whole call
CheckPermission ==
  \E agentId \in RequestAgentIds, endpointId \in EndpointIds, mode \in Modes,
     appendOk \in BOOLEAN :
    CheckPermissionOf(agentId, endpointId, mode, appendOk)

\* guardianRouter.getEndpoints and getConfig: the loaded part is returned as it is
GetEndpoints ==
  LET load == LoadGuardianConfig
  IN /\ CachesAfter(load)
     /\ lastEval' = [op |-> "getEndpoints", threw |-> load.threw,
                     result |-> IF load.threw THEN Null ELSE load.apiIndex,
                     load |-> LoadRecord(load), logBefore |-> Len(guardianLog)]
     /\ UNCHANGED <<now, files, guardianLog, rateLimitCache, mioAgentLogs, rlCalls, lastAcquire, turns, turn, agentMessages, openaiKey, lastCall, retrying>>

GetConfig ==
  LET load == LoadGuardianConfig
  IN /\ CachesAfter(load)
     /\ lastEval' = [op |-> "getConfig", threw |-> load.threw,
                     result |-> IF load.threw THEN Null ELSE load.config,
                     load |-> LoadRecord(load), logBefore |-> Len(guardianLog)]
     /\ UNCHANGED <<now, files, guardianLog, rateLimitCache, mioAgentLogs, rlCalls, lastAcquire, turns, turn, agentMessages, openaiKey, lastCall, retrying>>

----------------------------------------------------------------------------
(* guardian.ts: logToGuardian, checkRateLimit, cleanupRateLimitCache *)

\* a string or undefined used as a condition
Truthy(x) == x \notin {Undefined, ""}

\* guardian.ts:26-27
LogStatus(status) ==
  IF status = "allowed" THEN "success"
  ELSE IF status = "denied" THEN "warning" ELSE "error"

\* String.prototype.toUpperCase on the three statuses
StatusUpperCase(status) ==
  CASE status = "allowed" -> "ALLOWED"
    [] status = "denied" -> "DENIED"
    [] status = "error" -> "ERROR"

\* the row createMioAgentLog is given (guardian.ts:29-35)
AgentLogRow(entry) ==
  [agent |-> entry.agent,
   action |-> entry.method \o " " \o entry.path,
   status |-> LogStatus(entry.status),
   message |-> IF Truthy(entry.reason) THEN entry.reason
               ELSE StatusUpperCase(entry.status) \o ": " \o entry.method \o " " \o entry.path,
   details |-> entry.metadata]

LogToGuardianDropped(entry, writeOk) == mioAgentLogs' = mioAgentLogs

\* logToGuardian: the row is inserted, or createMioAgentLog throws and the
\* error is swallowed
LogToGuardian(entry, writeOk) ==
  mioAgentLogs' = IF writeOk THEN Append(mioAgentLogs, AgentLogRow(entry)) ELSE mioAgentLogs

\* Math.floor(now / (windowSeconds * 1000))
WindowIndex(t, windowSeconds) == t \div (windowSeconds * 1000)

\* `${agentId}:${windowIndex}`
RateLimitKey(agentId, t, windowSeconds) == <<agentId, WindowIndex(t, windowSeconds)>>

OverLimitOffByOne(count, limit) == count >= limit

\* cache.count > limit
OverLimit(count, limit) == count > limit

\* guardian.ts:119-131 on a cache: the entry of the key, made or reset when
\* missing or expired, and counted up
CountedIn(cache, agentId, windowSeconds) ==
  LET key == RateLimitKey(agentId, now, windowSeconds)
      fresh == [count |-> 0, resetAt |-> now + windowSeconds * 1000]
      found == IF key \in DOMAIN cache THEN cache[key] ELSE fresh
      live == IF now > found.resetAt THEN fresh ELSE found
  IN [live EXCEPT !.count = @ + 1]

CountedEntryForgets(agentId, windowSeconds) ==
  [count |-> 1, resetAt |-> now + windowSeconds * 1000]

\* the cache entry after guardian.ts:119-131
CountedEntry(agentId, windowSeconds) == CountedIn(rateLimitCache, agentId, windowSeconds)

\* the entry of the denial (guardian.ts:134-141)
RateLimitEntry(agentId, limit, windowSeconds, cache) ==
  [agent |-> agentId, method |-> "RATE_LIMIT", path |-> "/mihub/orchestrator",
   status |-> "denied",
   reason |-> "Rate limit exceeded: " \o ToString(cache.count) \o "/" \o ToString(limit)
                \o " in " \o ToString(windowSeconds) \o "s",
   metadata |-> [count |-> cache.count, limit |-> limit, resetAt |-> cache.resetAt]]

\* history of the calls: how many were made, and how many returned true, for
\* an agent at a time, the window lengths and the limits each agent was
\* called with, and the cache as the same calls leave it when
\* cleanupRateLimitCache never runs
NoCalls == [at |-> <<>>, accepted |-> <<>>, windows |-> [a \in {} |-> {}],
            limits |-> [a \in {} |-> {}], uncleaned |-> <<>>]
Recorded(agentId, limit, windowSeconds, ok) ==
  LET k == <<agentId, now>>
      n == IF k \in DOMAIN rlCalls.at THEN rlCalls.at[k] ELSE 0
      y == IF k \in DOMAIN rlCalls.accepted THEN rlCalls.accepted[k] ELSE 0
      w == IF agentId \in DOMAIN rlCalls.windows THEN rlCalls.windows[agentId] ELSE {}
      l == IF agentId \in DOMAIN rlCalls.limits THEN rlCalls.limits[agentId] ELSE {}
  IN [at |-> [x \in DOMAIN rlCalls.at \cup {k} |-> IF x = k THEN n + 1 ELSE rlCalls.at[x]],
      accepted |-> [x \in DOMAIN rlCalls.accepted \cup {k} |->
                      IF x = k THEN y + (IF ok THEN 1 ELSE 0) ELSE rlCalls.accepted[x]],
      windows |-> [x \in DOMAIN rlCalls.windows \cup {agentId} |->
                     IF x = agentId THEN w \cup {windowSeconds} ELSE rlCalls.windows[x]],
      limits |-> [x \in DOMAIN rlCalls.limits \cup {agentId} |->
                    IF x = agentId THEN l \cup {limit} ELSE rlCalls.limits[x]],
      uncleaned |-> [x \in DOMAIN rlCalls.uncleaned \cup {RateLimitKey(agentId, now, windowSeconds)} |->
                       IF x = RateLimitKey(agentId, now, windowSeconds)
                       THEN CountedIn(rlCalls.uncleaned, agentId, windowSeconds)
                       ELSE rlCalls.uncleaned[x]]]

\* checkRateLimit(agentId, limit, windowSeconds); writeOk is whether the audit
\* write of a denial succeeds
CheckRateLimit(agentId, limit, windowSeconds, writeOk) ==
  LET key == RateLimitKey(agentId, now, windowSeconds)
      cache == CountedEntry(agentId, windowSeconds)
      entry == RateLimitEntry(agentId, limit, windowSeconds, cache)
      over == OverLimit(cache.count, limit)
  IN /\ rateLimitCache' = [k \in DOMAIN rateLimitCache \cup {key} |->
                             IF k = key THEN cache ELSE rateLimitCache[k]]
     /\ IF over THEN LogToGuardian(entry, writeOk) ELSE mioAgentLogs' = mioAgentLogs
     /\ rlCalls' = Recorded(agentId, limit, windowSeconds, ~over)
     /\ lastAcquire' = [op |-> "checkRateLimit", agentId |-> agentId, limit |-> limit,
                        windowSeconds |-> windowSeconds, at |-> now, result |-> ~over,
                        entries |-> IF over THEN <<entry>> ELSE <<>>,
                        writeOk |-> writeOk, logBefore |-> Len(mioAgentLogs),
                        unreclaimed |-> ~OverLimit(CountedIn(rlCalls.uncleaned, agentId,
                                                             windowSeconds).count, limit),
                        reclaimed |-> /\ key \in DOMAIN rlCalls.uncleaned
                                      /\ key \notin DOMAIN rateLimitCache]
     /\ UNCHANGED turns

CleanupDeletesAll ==
  /\ rateLimitCache' = <<>>
  /\ UNCHANGED <<now, mioAgentLogs, rlCalls, lastAcquire, turns, turn, agentMessages, openaiKey, lastCall, retrying>>
  /\ UNCHANGED guardVars

\* cleanupRateLimitCache, the setInterval callback
CleanupRateLimitCache ==
  /\ rateLimitCache' = [k \in {x \in DOMAIN rateLimitCache : ~(rateLimitCache[x].resetAt < now)}
                          |-> rateLimitCache[k]]
  /\ UNCHANGED <<now, mioAgentLogs, rlCalls, lastAcquire, turns, turn, agentMessages, openaiKey, lastCall, retrying>>
  /\ UNCHANGED guardVars

----------------------------------------------------------------------------
(* SpecRL: the rate limiter under a clock that does not go back *)

NoAcquire == [op |-> "none"]
\* no turns run side by side; made counts the calls they made
NoTurns == [who |-> <<>>, made |-> 0]
NoTurn == [pc |-> "idle"]
NoCall == [op |-> "none"]
NoRetry == [pc |-> "idle"]

\* the other subsystems at rest
RateLimiterAtRest ==
  /\ rateLimitCache = <<>>
  /\ mioAgentLogs = <<>>
  /\ rlCalls = NoCalls
  /\ lastAcquire = NoAcquire
  /\ turns = NoTurns
OrchestratorAtRest ==
  /\ turn = NoTurn /\ agentMessages = <<>> /\ openaiKey = FALSE /\ lastCall = NoCall
  /\ retrying = NoRetry
GuardianAtRest ==
  /\ files = [apiIndex |-> Unreadable, permissions |-> Unreadable, config |-> Unreadable]
  /\ apiIndexCache = Null /\ permissionsCache = Null /\ guardianConfigCache = Null
  /\ lastCacheUpdate = 0
  /\ guardianLog = <<>>
  /\ lastEval = NoEval
  /\ loads = NoLoads
  /\ loading = NoLoading

RLAgentIds == {"mio_dev", "abacus"}
Limits == {1, 2}
WindowSeconds == {1, 2}

TotalCalls(c) ==
  LET RECURSIVE Sum(_)
      Sum(S) == IF S = {} THEN 0
                ELSE LET k == CHOOSE x \in S : TRUE IN c.at[k] + Sum(S \ {k})
  IN Sum(DOMAIN c.at)

RLCall ==
  /\ TotalCalls(rlCalls) < MaxCalls
  /\ \E agentId \in RLAgentIds, limit \in Limits, windowSeconds \in WindowSeconds :
       \E writeOk \in IF OverLimit(CountedEntry(agentId, windowSeconds).count, limit)
                      THEN BOOLEAN ELSE {TRUE} :
         CheckRateLimit(agentId, limit, windowSeconds, writeOk)
  /\ UNCHANGED <<now, turn, agentMessages, openaiKey, lastCall, retrying>>
  /\ UNCHANGED guardVars

RLCleanup ==
  /\ \E k \in DOMAIN rateLimitCache : rateLimitCache[k].resetAt < now
  /\ CleanupRateLimitCache

RLTick ==
  /\ now < MaxTicks * 1000
  /\ now' = now + 1000
  /\ UNCHANGED <<rateLimitCache, mioAgentLogs, rlCalls, lastAcquire, turns, turn, agentMessages, openaiKey, lastCall, retrying>>
  /\ UNCHANGED guardVars

InitRL ==
  /\ now = 0
  /\ rateLimitCache = <<>>
  /\ mioAgentLogs = <<>>
  /\ rlCalls = NoCalls
  /\ lastAcquire = NoAcquire
  /\ turns = NoTurns
  /\ GuardianAtRest
  /\ OrchestratorAtRest

NextRL == RLCall \/ RLCleanup \/ RLTick

SpecRL == InitRL /\ [][NextRL]_vars

----------------------------------------------------------------------------
(* SpecEval: one checkPermission call over every catalog of a bounded family *)

Rule == [endpoint_id : EndpointIds, modes : SUBSET Modes, max_risk : Risks,
         require_confirmation : BOOLEAN]

Endpoint(id, risk) ==
  [id |-> id, method |-> "GET", path |-> "/api/" \o id, description |-> id, risk |-> risk]

\* agents/permissions.json: mio_dev with any rule list up to MaxRules, abacus with
\* one fixed rule, and either value of defaults.unknown_endpoint.allow
PermissionTables ==
  {[agents |-> <<[id |-> "mio_dev", display_name |-> "MIO", rules |-> rs],
                 [id |-> "abacus", display_name |-> "Abacus",
                  rules |-> <<[endpoint_id |-> "e2", modes |-> {"read"},
                               max_risk |-> "low", require_confirmation |-> TRUE]>>]>>,
    defaults |-> [unknown_endpoint |-> [allow |-> a]]]
     : rs \in SeqUpTo(Rule, MaxRules), a \in BOOLEAN}

\* api/index.json: two services; e1 is absent or has any risk, e2 is present
ApiIndexes ==
  {[services |-> <<[id |-> "s1", display_name |-> "S1", base_url |-> "https://s1",
                    endpoints |-> es],
                   [id |-> "s2", display_name |-> "S2", base_url |-> "https://s2",
                    endpoints |-> <<Endpoint("e2", "medium")>>]>>]
     : es \in {<<>>} \cup {<<Endpoint("e1", r)>> : r \in Risks}}

GuardianConfig == [version |-> 1]

\* a line written by an earlier process
PriorLine ==
  [timestamp |-> 0, agent |-> "abacus", endpoint_id |-> "e2", method |-> "GET",
   path |-> "/api/e2", status |-> "denied", reason |-> "No permission rule found",
   risk_level |-> "medium", require_confirmation |-> Undefined]

\* module load: the caches are empty (part_000:165-168); the log file holds a
\* line of an earlier run
InitEval ==
  /\ now = 0
  /\ \E p \in PermissionTables, a \in ApiIndexes :
       files = [apiIndex |-> JsonFile(a), permissions |-> JsonFile(p),
                config |-> JsonFile(GuardianConfig)]
  /\ apiIndexCache = Null /\ permissionsCache = Null /\ guardianConfigCache = Null
  /\ lastCacheUpdate = 0
  /\ guardianLog = <<PriorLine>>
  /\ lastEval = NoEval
  /\ loads = NoLoads
  /\ loading = NoLoading
  /\ RateLimiterAtRest
  /\ OrchestratorAtRest

\* the first call of the process
NextEval == lastEval = NoEval /\ CheckPermission

SpecEval == InitEval /\ [][NextEval]_vars

----------------------------------------------------------------------------
(* Claims about checkPermission, stated over the last call and its snapshot *)

Returned == lastEval.op = "checkPermission" /\ ~lastEval.threw

\* the agent entries of the snapshot with this id
AgentEntries(P, a) == {P.agents[i] : i \in {j \in 1..Len(P.agents) : P.agents[j].id = a}}
AgentKnown == AgentEntries(lastEval.snapshot.permissions, lastEval.input.agentId) # {}

\* the catalog endpoints with this id
CatalogEndpoints(A, e) ==
  UNION {{A.services[s].endpoints[i] :
            i \in {j \in 1..Len(A.services[s].endpoints) :
                     A.services[s].endpoints[j].id = e}} : s \in 1..Len(A.services)}
EndpointKnown == CatalogEndpoints(lastEval.snapshot.apiIndex, lastEval.input.endpointId) # {}

\* the rules of the requesting agent, and those that name the requested endpoint
\* with no rule for it before them in list order (first match)
RequestRules ==
  (CHOOSE ag \in AgentEntries(lastEval.snapshot.permissions, lastEval.input.agentId) : TRUE).rules
MatchingRules ==
  {RequestRules[i] : i \in {j \in 1..Len(RequestRules) :
       /\ RequestRules[j].endpoint_id = lastEval.input.endpointId
       /\ \A k \in 1..(j-1) : RequestRules[k].endpoint_id # lastEval.input.endpointId}}
RequestEndpoint ==
  CHOOSE ep \in CatalogEndpoints(lastEval.snapshot.apiIndex, lastEval.input.endpointId) : TRUE

\* the total order low < medium < high
Tier(r) == CASE r = "low" -> 1 [] r = "medium" -> 2 [] r = "high" -> 3

DefaultsAllow == lastEval.snapshot.permissions.defaults.unknown_endpoint.allow

\* C2: a known agent with no rule for a catalogued endpoint is denied, whatever
\* the mode and the defaults are
C2_DefaultDeny ==
  (Returned /\ AgentKnown /\ EndpointKnown /\ MatchingRules = {})
    => lastEval.result.allowed = FALSE

\* C2 witness: the agent has a rule, for another endpoint only; defaults allow
\* unknown endpoints; the request is a write; it was denied
C2_Witness ==
  /\ Returned /\ AgentKnown /\ EndpointKnown /\ MatchingRules = {}
  /\ Len(RequestRules) > 0
  /\ DefaultsAllow
  /\ lastEval.input.mode = "write"
  /\ lastEval.result.allowed = FALSE

\* C3: with a rule whose modes contain the mode, the decision is allow exactly
\* when the endpoint's tier is at most the rule's max_risk tier
C3_RiskTiers ==
  (Returned /\ AgentKnown /\ EndpointKnown /\ MatchingRules # {})
    => \A r \in MatchingRules :
         lastEval.input.mode \in r.modes
           => lastEval.result.allowed = (Tier(RequestEndpoint.risk) <= Tier(r.max_risk))

\* C3 witness: equal tiers, allowed
C3_Witness ==
  /\ Returned /\ AgentKnown /\ EndpointKnown
  /\ \E r \in MatchingRules :
       /\ lastEval.input.mode \in r.modes
       /\ r.max_risk = "medium" /\ RequestEndpoint.risk = "medium"
  /\ lastEval.result.allowed = TRUE

\* C5 as claimed: a call that returned has put exactly one line, its own, in the log
C5_Original ==
  Returned => /\ Len(guardianLog) = lastEval.logBefore + 1
              /\ guardianLog[Len(guardianLog)] = lastEval.entry

\* C5 amended: a call that returned handed exactly one entry, for that call, to
\* logApiCall; the log grew by that one line when the append succeeded and not
\* at all when it failed
C5_OneAuditAttempt ==
  Returned =>
    /\ lastEval.entry.agent = lastEval.input.agentId
    /\ lastEval.entry.endpoint_id = lastEval.input.endpointId
    /\ lastEval.appendOk => /\ Len(guardianLog) = lastEval.logBefore + 1
                            /\ guardianLog[Len(guardianLog)] = lastEval.entry
    /\ ~lastEval.appendOk => Len(guardianLog) = lastEval.logBefore

\* C5 witness: a granted call whose line is the last of the log
C5_Witness ==
  /\ Returned /\ lastEval.appendOk /\ lastEval.result.allowed
  /\ AgentKnown /\ EndpointKnown
  /\ Len(guardianLog) = lastEval.logBefore + 1
  /\ guardianLog[Len(guardianLog)] = lastEval.entry

\* C7: an agent outside the permission table is denied as "Unknown agent" and
\* audited with an empty path, before the endpoint or the defaults are looked at
C7_UnknownAgentFirst ==
  (Returned /\ ~AgentKnown) =>
    /\ lastEval.result.allowed = FALSE
    /\ lastEval.result.reason = "Unknown agent"
    /\ lastEval.entry.path = ""
    /\ lastEval.entry.reason = "Unknown agent"
    /\ lastEval.entry.status = "denied"
    /\ lastEval.appendOk => guardianLog[Len(guardianLog)].path = ""

\* C7 witness: unknown agent, unknown endpoint, defaults allow unknown endpoints
C7_Witness ==
  /\ Returned /\ ~AgentKnown /\ ~EndpointKnown /\ DefaultsAllow
  /\ lastEval.appendOk
  /\ lastEval.result.allowed = FALSE

\* C8: a known agent asking for an endpoint outside the catalog gets
\* allowed = defaults.unknown_endpoint.allow, reason "Unknown endpoint" and no
\* confirmation, whatever its rules and the mode are
C8_UnknownEndpoint ==
  (Returned /\ AgentKnown /\ ~EndpointKnown) =>
    /\ lastEval.result.allowed = DefaultsAllow
    /\ lastEval.result.reason = "Unknown endpoint"
    /\ lastEval.result.require_confirmation = FALSE

\* C8 witness: the agent has a rule naming the missing endpoint that asks for
\* confirmation and does not grant the mode; the defaults allow
C8_Witness ==
  /\ Returned /\ AgentKnown /\ ~EndpointKnown /\ DefaultsAllow
  /\ \E r \in MatchingRules : r.require_confirmation /\ lastEval.input.mode \notin r.modes
  /\ lastEval.result.allowed = TRUE

\* C9: when the matching rule does not grant the mode the call is denied for the
\* mode, whatever the two risk tiers are
C9_ModeBeforeRisk ==
  (Returned /\ AgentKnown /\ EndpointKnown /\ MatchingRules # {}) =>
    \A r \in MatchingRules :
      lastEval.input.mode \notin r.modes =>
        /\ lastEval.result.allowed = FALSE
        /\ lastEval.result.reason =
             "Mode " \o lastEval.input.mode \o " not allowed for this endpoint"

\* C9 witness: the mode is not granted and the risk is within the rule's maximum
C9_Witness ==
  /\ Returned /\ AgentKnown /\ EndpointKnown
  /\ \E r \in MatchingRules :
       /\ lastEval.input.mode \notin r.modes
       /\ Tier(RequestEndpoint.risk) <= Tier(r.max_risk)
  /\ lastEval.result.allowed = FALSE

\* C10: the confirmation flag is the matching rule's when a rule allows, false
\* in every denial and in the unknown-endpoint branch; so it implies allowed
C10_ConfirmationFlag ==
  Returned =>
    /\ (lastEval.result.allowed /\ AgentKnown /\ EndpointKnown) =>
         /\ MatchingRules # {}
         /\ \A r \in MatchingRules :
              lastEval.result.require_confirmation = r.require_confirmation
    /\ ~lastEval.result.allowed => lastEval.result.require_confirmation = FALSE
    /\ (AgentKnown /\ ~EndpointKnown) => lastEval.result.require_confirmation = FALSE
    /\ lastEval.result.require_confirmation => lastEval.result.allowed

\* C10 witness: allowed through a rule that asks for confirmation
C10_Witness ==
  /\ Returned /\ AgentKnown /\ EndpointKnown
  /\ \E r \in MatchingRules : r.require_confirmation
  /\ lastEval.result.allowed
  /\ lastEval.result.require_confirmation

----------------------------------------------------------------------------
(* Claims about checkRateLimit, stated over the last call and the call history *)

Acquired == lastAcquire.op = "checkRateLimit"

\* the calls made so far for the agent at times of the window of (t, windowSeconds)
CallsInWindow(agentId, t, windowSeconds) ==
  LET S == {k \in DOMAIN rlCalls.at :
              /\ k[1] = agentId
              /\ WindowIndex(k[2], windowSeconds) = WindowIndex(t, windowSeconds)}
      RECURSIVE Sum(_)
      Sum(T) == IF T = {} THEN 0
                ELSE LET k == CHOOSE x \in T : TRUE IN rlCalls.at[k] + Sum(T \ {k})
  IN Sum(S)

\* the last call is among the first `limit` calls of its agent in its window
AmongFirstLimit ==
  CallsInWindow(lastAcquire.agentId, lastAcquire.at, lastAcquire.windowSeconds)
    <= lastAcquire.limit

\* every call made for the agent of the last call used one window length
OneWindowLength == rlCalls.windows[lastAcquire.agentId] = {lastAcquire.windowSeconds}

\* C4 as claimed: a call returns true exactly when it is among the first `limit`
\* calls for its agent in the fixed window of its call time
C4_Original == Acquired => (lastAcquire.result = AmongFirstLimit)

\* C4 amended: the same, for an agent that is always called with the same
\* windowSeconds
C4_FixedWindow ==
  (Acquired /\ OneWindowLength) => (lastAcquire.result = AmongFirstLimit)

\* C4 witness: a call accepted in a later window of an agent that had more calls
\* than the limit, hence rejections, in an earlier window
C4_Witness ==
  /\ Acquired /\ OneWindowLength
  /\ lastAcquire.result = TRUE
  /\ \E k \in DOMAIN rlCalls.at :
       /\ k[1] = lastAcquire.agentId
       /\ WindowIndex(k[2], lastAcquire.windowSeconds)
            < WindowIndex(lastAcquire.at, lastAcquire.windowSeconds)
       /\ CallsInWindow(k[1], k[2], lastAcquire.windowSeconds) > lastAcquire.limit

\* C6 as claimed: every call appends exactly one audit row, whatever it returns
C6_Original == Acquired => Len(mioAgentLogs) = lastAcquire.logBefore + 1

\* C6 amended: a call that returns false hands exactly one entry, status denied
\* and naming count and limit, to logToGuardian, whose row is appended unless
\* the write fails; a call that returns true appends nothing
C6_AuditOnDenialOnly ==
  Acquired =>
    /\ lastAcquire.result = TRUE =>
         /\ lastAcquire.entries = <<>>
         /\ Len(mioAgentLogs) = lastAcquire.logBefore
    /\ lastAcquire.result = FALSE =>
         /\ Len(lastAcquire.entries) = 1
         /\ lastAcquire.entries[1].agent = lastAcquire.agentId
         /\ lastAcquire.entries[1].status = "denied"
         /\ lastAcquire.entries[1].metadata.limit = lastAcquire.limit
         /\ lastAcquire.entries[1].metadata.count > lastAcquire.limit
         /\ lastAcquire.writeOk =>
              /\ Len(mioAgentLogs) = lastAcquire.logBefore + 1
              /\ mioAgentLogs[Len(mioAgentLogs)] = AgentLogRow(lastAcquire.entries[1])
         /\ ~lastAcquire.writeOk => Len(mioAgentLogs) = lastAcquire.logBefore

\* C6 witness: a rejected call whose row is the last of the log
C6_Witness ==
  /\ Acquired /\ lastAcquire.result = FALSE /\ lastAcquire.writeOk
  /\ Len(mioAgentLogs) = lastAcquire.logBefore + 1
  /\ mioAgentLogs[Len(mioAgentLogs)].status = "warning"

----------------------------------------------------------------------------
(* Strings that the code searches or slices are sequences of characters *)

Upper == <<"A", "B", "C", "D", "E", "F", "G", "H", "I", "J", "K", "L", "M", "N", "O", "P", "Q", "R", "S", "T", "U", "V", "W", "X", "Y", "Z">>
Lower == <<"a", "b", "c", "d", "e", "f", "g", "h", "i", "j", "k", "l", "m", "n", "o", "p", "q", "r", "s", "t", "u", "v", "w", "x", "y", "z">>
DigitChars == <<"0", "1", "2", "3", "4", "5", "6", "7", "8", "9">>

\* String.prototype.toLowerCase
ToLowerCase(s) ==
  [k \in 1..Len(s) |->
     IF \E j \in 1..Len(Upper) : Upper[j] = s[k]
     THEN Lower[CHOOSE j \in 1..Len(Upper) : Upper[j] = s[k]]
     ELSE s[k]]

\* String.prototype.includes
Includes(s, sub) ==
  \E k \in 0..(Len(s) - Len(sub)) : SubSeq(s, k + 1, k + Len(sub)) = sub

\* String.prototype.startsWith
StartsWith(s, prefix) ==
  Len(prefix) <= Len(s) /\ SubSeq(s, 1, Len(prefix)) = prefix

\* the decimal digits of a number, as `${n}` writes them
RECURSIVE Digits(_)
Digits(n) ==
  IF n < 10 THEN <<DigitChars[n + 1]>>
  ELSE Digits(n \div 10) \o <<DigitChars[(n % 10) + 1]>>

\* a sequence of characters as one string value
RECURSIVE Str(_)
Str(s) == IF s = <<>> THEN "" ELSE s[1] \o Str(Tail(s))

RECURSIVE Reverse(_)
Reverse(s) == IF s = <<>> THEN <<>> ELSE Append(Reverse(Tail(s)), s[1])

\* [...new Set(agents)]: first occurrences, in order
RECURSIVE Unique(_)
Unique(s) ==
  IF s = <<>> THEN <<>>
  ELSE LET init == Unique(SubSeq(s, 1, Len(s) - 1))
           last == s[Len(s)]
       IN IF \E k \in 1..Len(init) : init[k] = last THEN init ELSE Append(init, last)

----------------------------------------------------------------------------
(* router.ts: analyzeMessage *)

\* part_001:27
AgentIds == {"mio_dev", "abacus", "zapier", "manus_worker"}

\* router.ts:42-65
manusWorkerKeywords ==
  { <<"m", "a", "n", "u", "s">>,   \* 'manus'
    <<"s", "e", "r", "v", "e", "r">>,   \* 'server'
    <<"s", "s", "h">>,   \* 'ssh'
    <<"p", "m", "2">>,   \* 'pm2'
    <<"r", "e", "s", "t", "a", "r", "t">>,   \* 'restart'
    <<"r", "i", "a", "v", "v", "i", "a">>,   \* 'riavvia'
    <<"e", "s", "e", "g", "u", "i">>,   \* 'esegui'
    <<"e", "x", "e", "c", "u", "t", "e">>,   \* 'execute'
    <<"c", "o", "m", "a", "n", "d", "o">>,   \* 'comando'
    <<"c", "o", "m", "m", "a", "n", "d">>,   \* 'command'
    <<"d", "e", "p", "l", "o", "y">>,   \* 'deploy'
    <<"g", "i", "t", " ", "p", "u", "l", "l">>,   \* 'git pull'
    <<"p", "u", "l", "l">>,   \* 'pull'
    <<"l", "o", "g", "s">>,   \* 'logs'
    <<"s", "t", "a", "t", "o">>,   \* 'stato'
    <<"s", "t", "a", "t", "u", "s">>,   \* 'status'
    <<"v", "e", "r", "i", "f", "i", "c", "a">>,   \* 'verifica'
    <<"c", "h", "e", "c", "k">>,   \* 'check'
    <<"d", "i", "r", "e", "c", "t", "o", "r", "y">>,   \* 'directory'
    <<"f", "i", "l", "e", " ", "s", "y", "s", "t", "e", "m">>,   \* 'file system'
    <<"p", "r", "o", "c", "e", "s", "s", "o">>,   \* 'processo'
    <<"p", "r", "o", "c", "e", "s", "s">> }   \* 'process'

\* router.ts:74-98
mioDevKeywords ==
  { <<"g", "i", "t", "h", "u", "b">>,   \* 'github'
    <<"c", "o", "d", "i", "c", "e">>,   \* 'codice'
    <<"c", "o", "d", "e">>,   \* 'code'
    <<"c", "o", "m", "m", "i", "t">>,   \* 'commit'
    <<"r", "e", "p", "o">>,   \* 'repo'
    <<"r", "e", "p", "o", "s", "i", "t", "o", "r", "y">>,   \* 'repository'
    <<"b", "r", "a", "n", "c", "h">>,   \* 'branch'
    <<"p", "u", "l", "l", " ", "r", "e", "q", "u", "e", "s", "t">>,   \* 'pull request'
    <<"p", "r">>,   \* 'pr'
    <<"m", "e", "r", "g", "e">>,   \* 'merge'
    <<"f", "i", "l", "e">>,   \* 'file'
    <<"m", "o", "d", "i", "f", "i", "c", "a">>,   \* 'modifica'
    <<"c", "r", "e", "a", " ", "f", "i", "l", "e">>,   \* 'crea file'
    <<"e", "l", "i", "m", "i", "n", "a", " ", "f", "i", "l", "e">>,   \* 'elimina file'
    <<"b", "u", "i", "l", "d">>,   \* 'build'
    <<"c", "o", "m", "p", "i", "l", "a", "z", "i", "o", "n", "e">>,   \* 'compilazione'
    <<"e", "r", "r", "o", "r", "e", " ", "c", "o", "m", "p", "i", "l", "a", "z", "i", "o", "n", "e">>,   \* 'errore compilazione'
    <<"d", "e", "p", "e", "n", "d", "e", "n", "c", "y">>,   \* 'dependency'
    <<"d", "i", "p", "e", "n", "d", "e", "n", "z", "a">>,   \* 'dipendenza'
    <<"p", "a", "c", "k", "a", "g", "e", ".", "j", "s", "o", "n">>,   \* 'package.json'
    <<"n", "p", "m">>,   \* 'npm'
    <<"y", "a", "r", "n">>,   \* 'yarn'
    <<"p", "n", "p", "m">> }   \* 'pnpm'

\* router.ts:107-134
abacusKeywords ==
  { <<"a", "n", "a", "l", "i", "z", "z", "a">>,   \* 'analizza'
    <<"a", "n", "a", "l", "y", "z", "e">>,   \* 'analyze'
    <<"l", "o", "g">>,   \* 'log'
    <<"l", "o", "g", "s">>,   \* 'logs'
    <<"m", "e", "t", "r", "i", "c", "h", "e">>,   \* 'metriche'
    <<"m", "e", "t", "r", "i", "c", "s">>,   \* 'metrics'
    <<"e", "r", "r", "o", "r", "i">>,   \* 'errori'
    <<"e", "r", "r", "o", "r", "s">>,   \* 'errors'
    <<"s", "t", "a", "t", "i", "s", "t", "i", "c", "h", "e">>,   \* 'statistiche'
    <<"s", "t", "a", "t", "i", "s", "t", "i", "c", "s">>,   \* 'statistics'
    <<"g", "u", "a", "r", "d", "i", "a", "n">>,   \* 'guardian'
    <<"a", "p", "i", " ", "g", "u", "a", "r", "d", "i", "a", "n">>,   \* 'api guardian'
    <<"p", "e", "r", "f", "o", "r", "m", "a", "n", "c", "e">>,   \* 'performance'
    <<"l", "a", "t", "e", "n", "c", "y">>,   \* 'latency'
    <<"r", "e", "s", "p", "o", "n", "s", "e", " ", "t", "i", "m", "e">>,   \* 'response time'
    <<"q", "u", "a", "n", "t", "i">>,   \* 'quanti'
    <<"h", "o", "w", " ", "m", "a", "n", "y">>,   \* 'how many'
    <<"c", "o", "u", "n", "t">>,   \* 'count'
    <<"c", "o", "n", "t", "a">>,   \* 'conta'
    <<"d", "a", "s", "h", "b", "o", "a", "r", "d">>,   \* 'dashboard'
    <<"r", "e", "p", "o", "r", "t">>,   \* 'report'
    <<"a", "n", "a", "l", "i", "s", "i">>,   \* 'analisi'
    <<"a", "n", "a", "l", "y", "s", "i", "s">>,   \* 'analysis'
    <<"t", "r", "e", "n", "d">>,   \* 'trend'
    <<"g", "r", "a", "f", "i", "c", "o">>,   \* 'grafico'
    <<"c", "h", "a", "r", "t">> }   \* 'chart'

\* router.ts:143-164
zapierKeywords ==
  { <<"a", "u", "t", "o", "m", "a", "z", "i", "o", "n", "e">>,   \* 'automazione'
    <<"a", "u", "t", "o", "m", "a", "t", "i", "o", "n">>,   \* 'automation'
    <<"w", "e", "b", "h", "o", "o", "k">>,   \* 'webhook'
    <<"i", "n", "t", "e", "g", "r", "a", "z", "i", "o", "n", "e">>,   \* 'integrazione'
    <<"i", "n", "t", "e", "g", "r", "a", "t", "i", "o", "n">>,   \* 'integration'
    <<"z", "a", "p", "i", "e", "r">>,   \* 'zapier'
    <<"t", "r", "i", "g", "g", "e", "r">>,   \* 'trigger'
    <<"a", "c", "t", "i", "o", "n">>,   \* 'action'
    <<"w", "o", "r", "k", "f", "l", "o", "w">>,   \* 'workflow'
    <<"n", "o", "t", "i", "f", "i", "c", "a">>,   \* 'notifica'
    <<"n", "o", "t", "i", "f", "i", "c", "a", "t", "i", "o", "n">>,   \* 'notification'
    <<"e", "m", "a", "i", "l">>,   \* 'email'
    <<"s", "l", "a", "c", "k">>,   \* 'slack'
    <<"t", "e", "l", "e", "g", "r", "a", "m">>,   \* 'telegram'
    <<"d", "i", "s", "c", "o", "r", "d">>,   \* 'discord'
    <<"a", "p", "i", " ", "c", "a", "l", "l">>,   \* 'api call'
    <<"c", "h", "i", "a", "m", "a", "t", "a", " ", "a", "p", "i">>,   \* 'chiamata api'
    <<"s", "c", "h", "e", "d", "u", "l", "e">>,   \* 'schedule'
    <<"p", "i", "a", "n", "i", "f", "i", "c", "a">>,   \* 'pianifica'
    <<"c", "r", "o", "n">> }   \* 'cron'

\* keywords.some(keyword => messageLower.includes(keyword))
SomeIncluded(keywords, messageLower) == \E keyword \in keywords : Includes(messageLower, keyword)

AnalyzeMessageNoDefault(message) ==
  LET messageLower == ToLowerCase(message)
      pushed(keywords, agentId) ==
        IF SomeIncluded(keywords, messageLower) THEN <<agentId>> ELSE <<>>
  IN pushed(manusWorkerKeywords, "manus_worker") \o pushed(mioDevKeywords, "mio_dev")
       \o pushed(abacusKeywords, "abacus") \o pushed(zapierKeywords, "zapier")

\* analyzeMessage(message), for a message that is a string
AnalyzeMessage(message) ==
  LET messageLower == ToLowerCase(message)
      starts(p) == StartsWith(messageLower, p)
      pushed(keywords, agentId) ==
        IF SomeIncluded(keywords, messageLower) THEN <<agentId>> ELSE <<>>
      agents == pushed(manusWorkerKeywords, "manus_worker") \o pushed(mioDevKeywords, "mio_dev")
                  \o pushed(abacusKeywords, "abacus") \o pushed(zapierKeywords, "zapier")
  IN IF starts(<<"m", "a", "n", "u", "s", ",">>) \/ starts(<<"m", "a", "n", "u", "s", " ">>)
       THEN <<"manus_worker">>
     ELSE IF starts(<<"g", "p", "t", " ", "d", "e", "v", ",">>) \/ starts(<<"g", "p", "t", " ", "d", "e", "v", " ">>) \/ starts(<<"g", "p", "t", "d", "e", "v", ",">>) \/ starts(<<"g", "p", "t", "d", "e", "v", " ">>)
       THEN <<"mio_dev">>
     ELSE IF starts(<<"a", "b", "a", "c", "u", "s", ",">>) \/ starts(<<"a", "b", "a", "c", "u", "s", " ">>)
       THEN <<"abacus">>
     ELSE IF starts(<<"z", "a", "p", "i", "e", "r", ",">>) \/ starts(<<"z", "a", "p", "i", "e", "r", " ">>)
       THEN <<"zapier">>
     ELSE Unique(IF Len(agents) = 0 THEN <<"mio_dev">> ELSE agents)

----------------------------------------------------------------------------
(* database.ts: saveMessage, getConversation *)

\* the row saveMessage inserts (database.ts:44-55); messageId, a random
\* string, is left out
MessageRow(input) ==
  [conversationId |-> input.conversationId,
   sender |-> input.sender,
   recipients |-> input.recipients,
   messageType |-> "text",
   content |-> input.content,
   metadata |-> input.metadata,
   readBy |-> <<input.sender>>,
   createdAt |-> now]

\* outcomes of a database write: done, or getDb() gave no database
DbOutcomes == {"ok", "Database not available"}

\* saveMessage: the row is inserted, or the error is logged and thrown again
SaveMessage(input, db) ==
  IF db = "ok"
  THEN [threw |-> FALSE, error |-> Undefined, table |-> Append(agentMessages, MessageRow(input))]
  ELSE [threw |-> TRUE, error |-> db, table |-> agentMessages]

\* getConversation(userId, agentId, limit): newest `limit` rows, those of the
\* user's conversations sent by the user or the agent, oldest first; [] when
\* the database is missing or the query throws
GetConversation(userId, agentId, limit, db) ==
  IF db # "ok" THEN <<>>
  ELSE LET newestFirst == Reverse(agentMessages)
           messages == SubSeq(newestFirst, 1, IF Len(newestFirst) < limit
                                               THEN Len(newestFirst) ELSE limit)
           Kept(msg) == /\ Includes(msg.conversationId, userId)
                        /\ (msg.sender = "user" \/ msg.sender = agentId)
       IN Reverse(SelectSeq(messages, Kept))

----------------------------------------------------------------------------
(* promptBuilder: buildPrompt *)

\* how many earlier messages buildPrompt asks for (base.ts:508)
PromptHistory == 10

\* SYSTEM_PROMPTS[agentId]: the text of the agent, by name
SystemPrompt(agentId) ==
  IF agentId \in AgentIds THEN "SYSTEM_PROMPTS." \o agentId ELSE Undefined

\* AGENT_MODELS, with no OPENAI_MODEL_* override in the environment
AGENT_MODELS ==
  [agentId \in AgentIds |->
     CASE agentId = "mio_dev" ->
            [model |-> "gpt-4-1106-preview", temperature |-> "0.3", maxTokens |-> 2000]
       [] agentId = "abacus" ->
            [model |-> "gpt-4o-mini", temperature |-> "0.2", maxTokens |-> 1500]
       [] agentId = "zapier" ->
            [model |-> "gpt-4o-mini", temperature |-> "0.4", maxTokens |-> 1000]
       [] agentId = "manus_worker" ->
            [model |-> "gpt-4o-mini", temperature |-> "0.7", maxTokens |-> 1500]]

\* buildPrompt: throws only on `config.model` of an agent id AGENT_MODELS
\* does not have
BuildPrompt(agentId, message, userId, db) ==
  LET previousMessages == GetConversation(userId, agentId, PromptHistory, db)
      conversationMessages ==
        [k \in 1..Len(previousMessages) |->
           [role |-> IF previousMessages[k].sender = "user" THEN "user" ELSE "assistant",
            content |-> previousMessages[k].content]]
      messages == <<[role |-> "system", content |-> SystemPrompt(agentId)]>>
                    \o conversationMessages
                    \o <<[role |-> "user", content |-> message]>>
  IN IF agentId \notin DOMAIN AGENT_MODELS
     THEN [threw |-> TRUE,
           error |-> "Cannot read properties of undefined (reading 'model')"]
     ELSE [threw |-> FALSE,
           prompt |-> [messages |-> messages,
                       model |-> AGENT_MODELS[agentId].model,
                       temperature |-> AGENT_MODELS[agentId].temperature,
                       maxTokens |-> AGENT_MODELS[agentId].maxTokens]]

----------------------------------------------------------------------------
(* agents/base.ts: callAgent *)

\* checkRateLimit(agentId, 10, 60)
AGENT_RATE_LIMIT == 10
AGENT_RATE_WINDOW == 60

\* what openai.chat.completions.create does: a reply with content, or an error
\* with a message, which may be empty
ApiReplies(agentId) ==
  {[ok |-> TRUE, content |-> "reply of " \o agentId]}
    \cup {[ok |-> FALSE, message |-> m] : m \in {"503 Service Unavailable", ""}}

\* getMockResponse: the agent's template around the start of the user message
\* (the template bodies are shortened to their title)
GetMockResponse(agentId, prompt) ==
  LET userMessage == prompt.messages[Len(prompt.messages)].content
  IN [content |-> IF agentId \in AgentIds
                  THEN "**" \o agentId \o " (Mock Mode)** \"" \o Str(userMessage) \o "...\""
                  ELSE "Mock response from " \o agentId,
      metadata |-> [model |-> "mock", responseTime |-> 100, mock |-> TRUE]]

\* the response of a completed API call; executeAgentActions returns null
AgentCallResponse(prompt, content) ==
  [content |-> content,
   metadata |-> [model |-> prompt.model, responseTime |-> 0, actions |-> Null]]

CallEntry(agentId, status, reason, metadata) ==
  [agent |-> agentId, method |-> "POST", path |-> "/openai/chat/completions",
   status |-> status, reason |-> reason, metadata |-> metadata]

----------------------------------------------------------------------------
(* responseGenerator: generateFinalResponse; the emoji of the texts are written
   as [X], [OK] and [#] *)

getAgentName(agentId) ==
  CASE agentId = "mio_dev" -> "MIO Dev (GitHub & Sviluppo)"
    [] agentId = "abacus" -> "Abacus (Analisi & Metriche)"
    [] agentId = "zapier" -> "Zapier (Automazioni)"
    [] agentId = "manus_worker" -> "Manus Worker (Task Operativi)"
    [] OTHER -> agentId

\* the section of one outcome (part_002:55-67)
Section(response) ==
  (IF Truthy(response.error)
   THEN "### [X] " \o getAgentName(response.agentId) \o "\n\n"
          \o "Errore: " \o response.error \o "\n\n"
   ELSE "### [OK] " \o getAgentName(response.agentId) \o "\n\n"
          \o response.content \o "\n\n")
    \o "---\n\n"

RECURSIVE Sections(_)
Sections(agentResponses) ==
  IF agentResponses = <<>> THEN ""
  ELSE Section(agentResponses[1]) \o Sections(Tail(agentResponses))

GenerateFinalResponse(agentResponses, mode) ==
  LET n == Len(agentResponses)
      response == agentResponses[1]
      successfulAgents == {k \in 1..n : ~Truthy(agentResponses[k].error)}
      failedAgents == {k \in 1..n : Truthy(agentResponses[k].error)}
  IN IF mode = "manual"
     THEN IF n = 0 THEN "Nessuna risposta dall'agente."
          ELSE IF Truthy(response.error) THEN "[X] **Errore:** " \o response.error
          ELSE response.content
     ELSE IF n = 0 THEN "Nessun agente ha risposto alla richiesta."
     ELSE IF n = 1
     THEN IF Truthy(response.error)
          THEN "[X] **Errore da " \o response.agentId \o ":** " \o response.error
          ELSE "**" \o getAgentName(response.agentId) \o "** ha elaborato la richiesta:\n\n"
                 \o response.content
     ELSE "Ho coordinato **" \o ToString(n) \o " agenti** per elaborare la tua richiesta:\n\n"
            \o Sections(agentResponses)
            \o "## [#] Riepilogo\n\n"
            \o "- [OK] Agenti completati: " \o ToString(Cardinality(successfulAgents)) \o "\n"
            \o (IF Cardinality(failedAgents) > 0
                THEN "- [X] Agenti con errori: " \o ToString(Cardinality(failedAgents)) \o "\n"
                ELSE "")

----------------------------------------------------------------------------
(* index: orchestrate, one turn, one action for each stretch between awaits *)

\* `conv_${userId}_${Date.now()}`
ConversationId(userId, t) == <<"c", "o", "n", "v", "_">> \o userId \o <<"_">> \o Digits(t)

\* a message that is not a string
NoMessage == <<Undefined>>

\* the turn as orchestrate starts it
NewTurn(request) ==
  [pc |-> "start", request |-> request,
   conversationId |-> ConversationId(request.userId, now),
   selected |-> FALSE, classified |-> FALSE, agentsToUse |-> <<>>, i |-> 0,
   prompt |-> Null, response |-> Null, error |-> Undefined,
   agentResponses |-> <<>>, steps |-> <<>>, audits |-> <<>>, result |-> Null]

\* the agent the for loop is at
CurrentAgent == turn.agentsToUse[turn.i]

\* where the for loop stands with agentsToUse[i] next
LoopPc(agentsToUse, i) == IF i <= Len(agentsToUse) THEN "buildPrompt" ELSE "finish"

\* history: a step of the current agent's turn ended, normally or by throwing
Did(t, ev, ok, value) ==
  [t EXCEPT !.steps = Append(@, [i |-> t.i, agentId |-> t.agentsToUse[t.i],
                                  ev |-> ev, ok |-> ok, value |-> value])]

\* history: an entry was handed to logToGuardian at this point of the steps,
\* for the i-th agent (0: for the turn), and the row was written or not
Audited(t, i, entry, written) ==
  [t EXCEPT !.audits = Append(@, [i |-> i, agent |-> entry.agent, status |-> entry.status,
                                  written |-> written, after |-> Len(t.steps),
                                  outcomes |-> Len(t.agentResponses),
                                  row |-> IF written THEN Len(mioAgentLogs) + 1 ELSE 0])]

\* the for loop moves to the next agent
NextAgent(t) ==
  [t EXCEPT !.i = @ + 1, !.pc = LoopPc(t.agentsToUse, t.i + 1),
            !.prompt = Null, !.response = Null, !.error = Undefined]

CaughtAborts(t, message) == [t EXCEPT !.pc = "fatal", !.error = message]

\* the catch of the agent's try block (part_001:119-127)
Caught(t, message) ==
  NextAgent([t EXCEPT !.agentResponses =
               Append(@, [agentId |-> t.agentsToUse[t.i],
                          content |-> "Errore durante l'esecuzione dell'agente "
                                        \o t.agentsToUse[t.i],
                          metadata |-> Undefined,
                          error |-> message])])

RespondedTwice(t) ==
  LET outcome == [agentId |-> t.agentsToUse[t.i], content |-> t.response.content,
                  metadata |-> t.response.metadata, error |-> Undefined]
  IN NextAgent([t EXCEPT !.agentResponses = Append(Append(@, outcome), outcome)])

\* part_001:112-116
Responded(t) ==
  NextAgent([t EXCEPT !.agentResponses =
               Append(@, [agentId |-> t.agentsToUse[t.i],
                          content |-> t.response.content,
                          metadata |-> t.response.metadata,
                          error |-> Undefined])])

\* part_001:59-75: the agents are chosen; analyzeMessage throws on a message
\* that is not a string
OrchestrateStart(request) ==
  LET t == NewTurn(request)
  IN /\ turn = NoTurn
     /\ turn' =
          IF request.mode = "manual" /\ Truthy(request.targetAgent)
          THEN [t EXCEPT !.pc = "buildPrompt", !.selected = TRUE,
                         !.agentsToUse = <<request.targetAgent>>, !.i = 1]
          ELSE IF request.message = NoMessage
          THEN [t EXCEPT !.pc = "fatal", !.classified = TRUE,
                         !.error = "Cannot read properties of undefined (reading 'toLowerCase')"]
          ELSE LET agents == AnalyzeMessage(request.message)
               IN [t EXCEPT !.pc = LoopPc(agents, 1), !.selected = TRUE,
                            !.classified = TRUE, !.agentsToUse = agents, !.i = 1]
     /\ UNCHANGED <<now, mioAgentLogs, agentMessages, openaiKey, lastCall, retrying>>
     /\ UNCHANGED rlVars
     /\ UNCHANGED guardVars

\* part_001:85
OrchBuildPrompt(db) ==
  LET built == BuildPrompt(CurrentAgent, turn.request.message, turn.request.userId, db)
  IN /\ turn.pc = "buildPrompt"
     /\ turn' = IF built.threw
                THEN Caught(Did(turn, "buildPrompt", FALSE, built.error), built.error)
                ELSE [Did(turn, "buildPrompt", TRUE, Undefined)
                        EXCEPT !.pc = "saveDelegation", !.prompt = built.prompt]
     /\ UNCHANGED <<now, mioAgentLogs, agentMessages, openaiKey, lastCall, retrying>>
     /\ UNCHANGED rlVars
     /\ UNCHANGED guardVars

OrchSaveDelegationGoesOn(db) ==
  /\ turn.pc = "saveDelegation"
  /\ agentMessages' = agentMessages
  /\ turn' = [Did(turn, "saveDelegation", db = "ok", Undefined) EXCEPT !.pc = "checkRateLimit"]
  /\ UNCHANGED <<now, mioAgentLogs, openaiKey, lastCall, retrying>>
  /\ UNCHANGED rlVars
  /\ UNCHANGED guardVars

\* part_001:88-95
OrchSaveDelegation(db) ==
  LET saved == SaveMessage([conversationId |-> turn.conversationId, sender |-> "mio",
                            content |-> turn.prompt, recipients |-> <<CurrentAgent>>,
                            metadata |-> [delegatedFrom |-> "user",
                                          originalMessage |-> turn.request.message]], db)
  IN /\ turn.pc = "saveDelegation"
     /\ agentMessages' = saved.table
     /\ turn' = IF saved.threw
                THEN Caught(Did(turn, "saveDelegation", FALSE, saved.error), saved.error)
                ELSE [Did(turn, "saveDelegation", TRUE, Undefined)
                        EXCEPT !.pc = "checkRateLimit"]
     /\ UNCHANGED <<now, mioAgentLogs, openaiKey, lastCall, retrying>>
     /\ UNCHANGED rlVars
     /\ UNCHANGED guardVars

\* whether checkRateLimit, called now for the agent, denies
Denies(agentId) ==
  OverLimit(CountedEntry(agentId, AGENT_RATE_WINDOW).count, AGENT_RATE_LIMIT)

CallAgentAcquireIgnoresDenial(writeOk) ==
  /\ turn.pc = "checkRateLimit"
  /\ Denies(CurrentAgent) \/ writeOk
  /\ CheckRateLimit(CurrentAgent, AGENT_RATE_LIMIT, AGENT_RATE_WINDOW, writeOk)
  /\ turn' = [Did(turn, "checkRateLimit", ~Denies(CurrentAgent), Undefined)
                EXCEPT !.pc = "invoke"]
  /\ UNCHANGED <<now, agentMessages, openaiKey, lastCall, retrying>>
  /\ UNCHANGED guardVars

\* callAgent, base.ts:37-40
CallAgentAcquire(writeOk) ==
  /\ turn.pc = "checkRateLimit"
  /\ Denies(CurrentAgent) \/ writeOk
  /\ CheckRateLimit(CurrentAgent, AGENT_RATE_LIMIT, AGENT_RATE_WINDOW, writeOk)
  /\ turn' = IF Denies(CurrentAgent)
             THEN [Audited(Did(turn, "checkRateLimit", FALSE, "Rate limit exceeded for agent"),
                           turn.i,
                           RateLimitEntry(CurrentAgent, AGENT_RATE_LIMIT, AGENT_RATE_WINDOW,
                                          CountedEntry(CurrentAgent, AGENT_RATE_WINDOW)),
                           writeOk)
                     EXCEPT !.pc = "callAgentCatch",
                            !.error = "Rate limit exceeded for agent"]
             ELSE [Did(turn, "checkRateLimit", TRUE, Undefined) EXCEPT !.pc = "invoke"]
  /\ UNCHANGED <<now, agentMessages, openaiKey, lastCall, retrying>>
  /\ UNCHANGED guardVars

\* callAgent, base.ts:43-68: the mock response without a key, else the API call
CallAgentInvoke ==
  /\ turn.pc = "invoke"
  /\ \E reply \in ApiReplies(CurrentAgent) :
     turn' =
       IF ~openaiKey
       THEN [Did(turn, "getMockResponse", TRUE, GetMockResponse(CurrentAgent, turn.prompt).content)
               EXCEPT !.pc = "saveResponse",
                      !.response = GetMockResponse(CurrentAgent, turn.prompt)]
       ELSE IF reply.ok
       THEN [Did(turn, "openai", TRUE, reply.content)
               EXCEPT !.pc = "logSuccess",
                      !.response = AgentCallResponse(turn.prompt, reply.content)]
       ELSE [Did(turn, "openai", FALSE, reply.message)
               EXCEPT !.pc = "callAgentCatch", !.error = reply.message]
  /\ UNCHANGED <<now, mioAgentLogs, agentMessages, openaiKey, lastCall, retrying>>
  /\ UNCHANGED rlVars
  /\ UNCHANGED guardVars

CallAgentLogSuccessRaises(writeOk) ==
  /\ turn.pc = "logSuccess"
  /\ LogToGuardian(CallEntry(CurrentAgent, "allowed", Undefined, Undefined), writeOk)
  /\ turn' = IF writeOk THEN [turn EXCEPT !.pc = "saveResponse"]
             ELSE Caught(turn, "createMioAgentLog failed")
  /\ UNCHANGED <<now, agentMessages, openaiKey, lastCall, retrying>>
  /\ UNCHANGED rlVars
  /\ UNCHANGED guardVars

\* callAgent, base.ts:71-96
CallAgentLogSuccess(writeOk) ==
  /\ turn.pc = "logSuccess"
  /\ LogToGuardian(CallEntry(CurrentAgent, "allowed", Undefined,
                             [model |-> turn.prompt.model, responseTime |-> 0,
                              tokens |-> Undefined]), writeOk)
  /\ turn' = [Audited(turn, turn.i, CallEntry(CurrentAgent, "allowed", Undefined, Undefined),
                      writeOk)
                EXCEPT !.pc = "saveResponse"]
  /\ UNCHANGED <<now, agentMessages, openaiKey, lastCall, retrying>>
  /\ UNCHANGED rlVars
  /\ UNCHANGED guardVars

\* callAgent, base.ts:98-111: the error is logged and thrown again, into the
\* catch of the agent's try block
CallAgentCatch(writeOk) ==
  /\ turn.pc = "callAgentCatch"
  /\ LogToGuardian(CallEntry(CurrentAgent, "error", turn.error, Undefined), writeOk)
  /\ turn' = Caught(Audited(turn, turn.i,
                            CallEntry(CurrentAgent, "error", turn.error, Undefined), writeOk),
                    turn.error)
  /\ UNCHANGED <<now, agentMessages, openaiKey, lastCall, retrying>>
  /\ UNCHANGED rlVars
  /\ UNCHANGED guardVars

\* part_001:102-118
OrchSaveResponse(db) ==
  LET saved == SaveMessage([conversationId |-> turn.conversationId, sender |-> CurrentAgent,
                            content |-> turn.response.content, recipients |-> <<"mio">>,
                            metadata |-> turn.response.metadata], db)
  IN /\ turn.pc = "saveResponse"
     /\ agentMessages' = saved.table
     /\ turn' = IF saved.threw
                THEN Caught(Did(turn, "saveResponse", FALSE, saved.error), saved.error)
                ELSE Responded(Did(turn, "saveResponse", TRUE, Undefined))
     /\ UNCHANGED <<now, mioAgentLogs, openaiKey, lastCall, retrying>>
     /\ UNCHANGED rlVars
     /\ UNCHANGED guardVars

TurnEntryAlwaysAllowed(t, status, metadata) ==
  [agent |-> "orchestrator", method |-> "POST", path |-> "/mihub/orchestrator",
   status |-> "allowed", reason |-> Undefined, metadata |-> metadata]

\* the entry of the turn (part_001:134-145, 158-167)
TurnEntry(t, status, metadata) ==
  [agent |-> "orchestrator", method |-> "POST", path |-> "/mihub/orchestrator",
   status |-> status, reason |-> Undefined, metadata |-> metadata]

\* part_001:130-153
OrchFinish(writeOk) ==
  /\ turn.pc = "finish"
  /\ LogToGuardian(TurnEntry(turn, "allowed",
                             [userId |-> turn.request.userId, agentsUsed |-> turn.agentsToUse,
                              mode |-> turn.request.mode,
                              conversationId |-> turn.conversationId]), writeOk)
  /\ turn' = [Audited(turn, 0, TurnEntry(turn, "allowed", Undefined), writeOk) EXCEPT
                !.pc = "done",
                !.result = [success |-> TRUE,
                            message |-> GenerateFinalResponse(turn.agentResponses,
                                                              turn.request.mode),
                            agentsUsed |-> turn.agentsToUse,
                            conversationId |-> turn.conversationId,
                            timestamp |-> now,
                            error |-> Undefined]]
  /\ UNCHANGED <<now, agentMessages, openaiKey, lastCall, retrying>>
  /\ UNCHANGED rlVars
  /\ UNCHANGED guardVars

OrchFatalReportsSuccess(writeOk) ==
  /\ turn.pc = "fatal"
  /\ LogToGuardian(TurnEntry(turn, "error",
                             [userId |-> turn.request.userId, error |-> turn.error]), writeOk)
  /\ turn' = [Audited(turn, 0, TurnEntry(turn, "allowed", Undefined), writeOk) EXCEPT
                !.pc = "done",
                !.result = [success |-> TRUE,
                            message |-> "Si e' verificato un errore durante l'elaborazione della richiesta",
                            agentsUsed |-> <<>>,
                            conversationId |-> turn.conversationId,
                            timestamp |-> now,
                            error |-> turn.error]]
  /\ UNCHANGED <<now, agentMessages, openaiKey, lastCall, retrying>>
  /\ UNCHANGED rlVars
  /\ UNCHANGED guardVars

\* part_001:154-177
OrchFatal(writeOk) ==
  /\ turn.pc = "fatal"
  /\ LogToGuardian(TurnEntry(turn, "error",
                             [userId |-> turn.request.userId, error |-> turn.error]), writeOk)
  /\ turn' = [Audited(turn, 0, TurnEntry(turn, "error", Undefined), writeOk) EXCEPT
                !.pc = "done",
                !.result = [success |-> FALSE,
                            message |-> "Si e' verificato un errore durante l'elaborazione della richiesta",
                            agentsUsed |-> <<>>,
                            conversationId |-> turn.conversationId,
                            timestamp |-> now,
                            error |-> turn.error]]
  /\ UNCHANGED <<now, agentMessages, openaiKey, lastCall, retrying>>
  /\ UNCHANGED rlVars
  /\ UNCHANGED guardVars

----------------------------------------------------------------------------
(* SpecOrch: one turn of orchestrate *)

UserId == <<"u", "1">>

MsgCiao == <<"c", "i", "a", "o">>
MsgManusLogs == <<"M", "a", "n", "u", "s", ",", " ", "l", "o", "g", "s">>
MsgLogs == <<"l", "o", "g", "s">>
MsgDeployReport == <<"d", "e", "p", "l", "o", "y", " ", "r", "e", "p", "o", "r", "t">>
MsgCronLogsPr == <<"c", "r", "o", "n", " ", "l", "o", "g", "s", " ", "p", "r">>
Messages == {MsgCiao, MsgManusLogs, MsgLogs, MsgDeployReport, MsgCronLogsPr}

\* the requests: the types of targetAgent and message are not checked at run
\* time, so a target outside AgentId and a missing message can arrive
Requests ==
  {[mode |-> "manual", targetAgent |-> a, message |-> MsgLogs, userId |-> UserId] :
     a \in AgentIds \cup {"ghost", Undefined}}
  \cup {[mode |-> "auto", targetAgent |-> Undefined, message |-> m, userId |-> UserId] :
          m \in Messages \cup {NoMessage}}
  \cup {[mode |-> "auto", targetAgent |-> "zapier", message |-> MsgCiao, userId |-> UserId]}

\* the cache and the history after AGENT_RATE_LIMIT calls for each agent of E in
\* the window of time 0
ExhaustedCache(E) ==
  [k \in {<<a, 0>> : a \in E} |->
     [count |-> AGENT_RATE_LIMIT, resetAt |-> AGENT_RATE_WINDOW * 1000]]
ExhaustedCalls(E) ==
  [at |-> [k \in {<<a, 0>> : a \in E} |-> AGENT_RATE_LIMIT],
   accepted |-> [k \in {<<a, 0>> : a \in E} |-> AGENT_RATE_LIMIT],
   windows |-> [a \in E |-> {AGENT_RATE_WINDOW}],
   limits |-> [a \in E |-> {AGENT_RATE_LIMIT}],
   uncleaned |-> ExhaustedCache(E)]

InitOrch ==
  /\ now = 0
  /\ openaiKey \in BOOLEAN
  /\ \E E \in SUBSET AgentIds :
       /\ rateLimitCache = ExhaustedCache(E)
       /\ rlCalls = ExhaustedCalls(E)
  /\ lastAcquire = NoAcquire
  /\ turns = NoTurns
  /\ mioAgentLogs = <<>>
  /\ agentMessages = <<>>
  /\ turn = NoTurn
  /\ lastCall = NoCall
  /\ retrying = NoRetry
  /\ GuardianAtRest

NextOrch ==
  \/ \E request \in Requests : OrchestrateStart(request)
  \/ \E db \in DbOutcomes : OrchBuildPrompt(db)
  \/ \E db \in DbOutcomes : OrchSaveDelegation(db)
  \/ \E writeOk \in BOOLEAN : CallAgentAcquire(writeOk)
  \/ CallAgentInvoke
  \/ \E writeOk \in BOOLEAN : CallAgentLogSuccess(writeOk)
  \/ \E writeOk \in BOOLEAN : CallAgentCatch(writeOk)
  \/ \E db \in DbOutcomes : OrchSaveResponse(db)
  \/ \E writeOk \in BOOLEAN : OrchFinish(writeOk)
  \/ \E writeOk \in BOOLEAN : OrchFatal(writeOk)

SpecOrch == InitOrch /\ [][NextOrch]_vars

----------------------------------------------------------------------------
(* Claims about orchestrate, stated over a finished turn and its history *)

\* the turn has returned, having chosen its agents
TurnReturned == turn.pc = "done" /\ turn.selected

\* a step of the i-th agent's turn threw
Failed(i) == \E k \in 1..Len(turn.steps) : turn.steps[k].i = i /\ ~turn.steps[k].ok

\* the content callAgent returned for the i-th agent
ContentReturned(i) ==
  LET k == CHOOSE k \in 1..Len(turn.steps) :
             /\ turn.steps[k].i = i
             /\ turn.steps[k].ev \in {"openai", "getMockResponse"}
             /\ turn.steps[k].ok
  IN turn.steps[k].value

\* C1: a turn that chose its agents returns success=true with one outcome for
\* each chosen agent, in the order chosen; the outcome has its error set exactly
\* when a step of that agent's turn threw, and otherwise carries the content the
\* agent returned
C1_DispatchIsolation ==
  TurnReturned =>
    /\ turn.result.success = TRUE
    /\ Len(turn.agentResponses) = Len(turn.agentsToUse)
    /\ \A i \in 1..Len(turn.agentsToUse) :
         /\ turn.agentResponses[i].agentId = turn.agentsToUse[i]
         /\ (turn.agentResponses[i].error # Undefined) <=> Failed(i)
         /\ ~Failed(i) => turn.agentResponses[i].content = ContentReturned(i)

\* C1 witness: three agents chosen, the API call of the second threw, the first
\* and the third are reported with the contents they returned
C1_Witness ==
  /\ TurnReturned
  /\ Len(turn.agentsToUse) = 3
  /\ turn.result.success = TRUE
  /\ \E k \in 1..Len(turn.steps) :
       turn.steps[k].i = 2 /\ turn.steps[k].ev = "openai" /\ ~turn.steps[k].ok
  /\ ~Failed(1) /\ ~Failed(3)
  /\ turn.agentResponses[2].error # Undefined
  /\ turn.agentResponses[1].content = "reply of manus_worker"
  /\ turn.agentResponses[3].content = "reply of abacus"

\* the i-th agent's rate-limit acquisition was denied
Throttled(i) ==
  \E k \in 1..Len(turn.steps) :
    turn.steps[k].i = i /\ turn.steps[k].ev = "checkRateLimit" /\ ~turn.steps[k].ok

\* a step named ev was taken for the i-th agent
Stepped(i, ev) ==
  \E k \in 1..Len(turn.steps) : turn.steps[k].i = i /\ turn.steps[k].ev = ev

\* the turn has chosen its agents and is in progress or has returned
TurnSelected == turn.pc # "idle" /\ turn.selected

\* C11: an agent whose rate-limit acquisition was denied never has the API (or
\* the mock) called for it; when the turn has returned its outcome is the error
\* 'Rate limit exceeded for agent', and every later agent was processed and has
\* an outcome of its own
C11_ThrottlingIsolation ==
  TurnSelected =>
    \A i \in 1..Len(turn.agentsToUse) :
      Throttled(i) =>
        /\ ~Stepped(i, "openai") /\ ~Stepped(i, "getMockResponse")
        /\ turn.pc = "done" =>
             /\ Len(turn.agentResponses) = Len(turn.agentsToUse)
             /\ turn.agentResponses[i].agentId = turn.agentsToUse[i]
             /\ turn.agentResponses[i].error = "Rate limit exceeded for agent"
             /\ \A j \in (i + 1)..Len(turn.agentsToUse) :
                  /\ Stepped(j, "buildPrompt")
                  /\ turn.agentResponses[j].agentId = turn.agentsToUse[j]

\* C11 witness: of three agents the first was throttled, the second and the
\* third were called and answered
C11_Witness ==
  /\ TurnReturned
  /\ Len(turn.agentsToUse) = 3
  /\ Throttled(1)
  /\ Stepped(2, "openai") /\ Stepped(3, "openai")
  /\ turn.agentResponses[1].error = "Rate limit exceeded for agent"
  /\ turn.agentResponses[2].error = Undefined
  /\ turn.agentResponses[3].error = Undefined

\* the position in the history of the step ev of the i-th agent, 0 if none
StepAt(i, ev) ==
  IF Stepped(i, ev)
  THEN CHOOSE k \in 1..Len(turn.steps) : turn.steps[k].i = i /\ turn.steps[k].ev = ev
  ELSE 0

\* the step ev of the i-th agent was taken and did not throw
SteppedOk(i, ev) == Stepped(i, ev) /\ turn.steps[StepAt(i, ev)].ok

\* the i-th agent was invoked: callAgent was entered for it
Invoked(i) == Stepped(i, "checkRateLimit")

\* callAgent returned a response for the i-th agent
InvocationReturned(i) == SteppedOk(i, "openai") \/ Stepped(i, "getMockResponse")

\* rows of the table that are delegations to, and responses of, an agent in the
\* conversation of the turn
DelegationRows(agentId) ==
  {k \in 1..Len(agentMessages) :
     /\ agentMessages[k].conversationId = turn.conversationId
     /\ agentMessages[k].sender = "mio"
     /\ agentMessages[k].recipients = <<agentId>>}
ResponseRows(agentId) ==
  {k \in 1..Len(agentMessages) :
     /\ agentMessages[k].conversationId = turn.conversationId
     /\ agentMessages[k].sender = agentId
     /\ agentMessages[k].recipients = <<"mio">>}

\* C12: an agent is invoked only after its delegation message was saved, and a
\* response message is in the table only after callAgent returned for its agent
\* and behind the delegation message of that agent; an agent whose delegation
\* could not be saved is never invoked
C12_MessageOrdering ==
  TurnSelected =>
    \A i \in 1..Len(turn.agentsToUse) :
      LET agentId == turn.agentsToUse[i]
      IN /\ Invoked(i) =>
              /\ SteppedOk(i, "saveDelegation")
              /\ StepAt(i, "saveDelegation") < StepAt(i, "checkRateLimit")
              /\ DelegationRows(agentId) # {}
         /\ (Stepped(i, "saveDelegation") /\ ~SteppedOk(i, "saveDelegation")) =>
              /\ ~Invoked(i) /\ ~Stepped(i, "openai") /\ ~Stepped(i, "getMockResponse")
              /\ DelegationRows(agentId) = {}
         /\ \A r \in ResponseRows(agentId) :
              /\ InvocationReturned(i)
              /\ SteppedOk(i, "saveResponse")
              /\ \E d \in DelegationRows(agentId) : d < r

\* C12 witness: the first agent has its delegation and then its response in the
\* table; the delegation of the second could not be saved and it was not invoked
C12_Witness ==
  /\ TurnReturned
  /\ Len(turn.agentsToUse) >= 2
  /\ ResponseRows(turn.agentsToUse[1]) # {}
  /\ \E d \in DelegationRows(turn.agentsToUse[1]) :
       \A r \in ResponseRows(turn.agentsToUse[1]) : d < r
  /\ Stepped(2, "saveDelegation") /\ ~SteppedOk(2, "saveDelegation")
  /\ ~Invoked(2)

\* the steps named ev taken for an agent id, and the outcomes of an agent id
StepsOf(agentId, ev) ==
  {k \in 1..Len(turn.steps) : turn.steps[k].agentId = agentId /\ turn.steps[k].ev = ev}
OutcomesOf(agentId) ==
  {k \in 1..Len(turn.agentResponses) : turn.agentResponses[k].agentId = agentId}

\* C13: in a turn every chosen agent is chosen once, is invoked at most once
\* (one checkRateLimit, one API or mock call), has at most one delegation row and
\* at most one response row, and has exactly one outcome when the turn returns
C13_OncePerAgent ==
  TurnSelected =>
    \A i \in 1..Len(turn.agentsToUse) :
      LET agentId == turn.agentsToUse[i]
      IN /\ \A j \in 1..Len(turn.agentsToUse) : turn.agentsToUse[j] = agentId => j = i
         /\ Cardinality(StepsOf(agentId, "checkRateLimit")) <= 1
         /\ Cardinality(StepsOf(agentId, "openai") \cup StepsOf(agentId, "getMockResponse")) <= 1
         /\ Cardinality(DelegationRows(agentId)) <= 1
         /\ Cardinality(ResponseRows(agentId)) <= 1
         /\ Cardinality(OutcomesOf(agentId)) <= 1
         /\ turn.pc = "done" => Cardinality(OutcomesOf(agentId)) = 1

\* C13 witness: four agents, each called once, each with one delegation row,
\* one response row and one outcome
C13_Witness ==
  /\ TurnReturned
  /\ Len(turn.agentsToUse) = 4
  /\ \A i \in 1..4 :
       /\ Cardinality(StepsOf(turn.agentsToUse[i], "openai")) = 1
       /\ Cardinality(DelegationRows(turn.agentsToUse[i])) = 1
       /\ Cardinality(ResponseRows(turn.agentsToUse[i])) = 1
       /\ Cardinality(OutcomesOf(turn.agentsToUse[i])) = 1

\* the places a turn can be at
TurnPcs == {"idle", "buildPrompt", "saveDelegation", "checkRateLimit", "invoke", "logSuccess",
            "callAgentCatch", "saveResponse", "finish", "fatal", "done"}

\* C14: a turn in progress always has a next step and ends by returning a
\* result; the result has success=false exactly when its error field is set,
\* and then agentsUsed is empty and no step of any agent was taken; a turn that
\* chose its agents returns success=true whatever failed for the agents
C14_FatalFailure ==
  /\ turn.pc \in TurnPcs
  /\ turn.pc \notin {"idle", "done"} => ENABLED NextOrch
  /\ turn.pc = "done" =>
       /\ turn.result.success \in BOOLEAN
       /\ (turn.result.success = FALSE) <=> (turn.result.error # Undefined)
       /\ turn.result.success = FALSE =>
            /\ turn.result.agentsUsed = <<>>
            /\ turn.steps = <<>>
            /\ agentMessages = <<>>
       /\ turn.selected => turn.result.success = TRUE
       /\ (\E i \in 1..Len(turn.agentsToUse) : Failed(i)) => turn.result.success = TRUE

\* C14 witness: a turn whose classifier threw returned success=false with the
\* error set and no agents used
C14_Witness ==
  /\ turn.pc = "done"
  /\ ~turn.selected
  /\ turn.result.success = FALSE
  /\ turn.result.error # Undefined
  /\ turn.result.agentsUsed = <<>>

\* C15 as claimed: a manual turn processes exactly its target and does not call
\* the classifier; the classifier is called in auto mode only
C15_SelectionByMode ==
  TurnSelected =>
    /\ turn.request.mode = "manual" =>
         /\ turn.agentsToUse = <<turn.request.targetAgent>>
         /\ ~turn.classified
    /\ turn.classified => turn.request.mode = "auto"

----------------------------------------------------------------------------
(* SpecClassify: analyzeMessage called twice on one message *)

\* longest message, in words of ClassifierWords
MaxWords == 2

\* the words messages are made of: names of agents with and without the comma
\* or blank of a prefix, keywords, a word that is no keyword, a blank
ClassifierWords ==
  { <<"M", "a", "n", "u", "s", ",">>, <<"g", "p", "t", " ", "d", "e", "v", " ">>, <<"A", "B", "A", "C", "U", "S", " ">>, <<"z", "a", "p", "i", "e", "r">>, <<"l", "o", "g", "s">>, <<"d", "e", "p", "l", "o", "y">>,
    <<"r", "e", "p", "o", "r", "t">>, <<"c", "r", "o", "n">>, <<"c", "i", "a", "o">>, <<" ">> }

RECURSIVE Concat(_)
Concat(words) == IF words = <<>> THEN <<>> ELSE words[1] \o Concat(Tail(words))

ClassifierMessages == {Concat(words) : words \in SeqUpTo(ClassifierWords, MaxWords)}

\* the first call
Classify ==
  /\ lastCall = NoCall
  /\ \E message \in ClassifierMessages :
       lastCall' = [op |-> "analyzeMessage", message |-> message,
                    results |-> <<AnalyzeMessage(message)>>]
  /\ UNCHANGED <<now, mioAgentLogs, turn, agentMessages, openaiKey, retrying>>
  /\ UNCHANGED rlVars
  /\ UNCHANGED guardVars

\* the same message once more
ClassifyAgain ==
  /\ lastCall.op = "analyzeMessage"
  /\ Len(lastCall.results) = 1
  /\ lastCall' = [lastCall EXCEPT !.results = Append(@, AnalyzeMessage(lastCall.message))]
  /\ UNCHANGED <<now, mioAgentLogs, turn, agentMessages, openaiKey, retrying>>
  /\ UNCHANGED rlVars
  /\ UNCHANGED guardVars

InitClassify ==
  /\ now = 0
  /\ RateLimiterAtRest
  /\ GuardianAtRest
  /\ OrchestratorAtRest

NextClassify == Classify \/ ClassifyAgain

SpecClassify == InitClassify /\ [][NextClassify]_vars

----------------------------------------------------------------------------
(* Claims about analyzeMessage *)

Classified == lastCall.op = "analyzeMessage"

\* the order in which analyzeMessage looks for the agents
ClassifierOrder == <<"manus_worker", "mio_dev", "abacus", "zapier">>

\* the explicit prefixes (router.ts:22-37)
ExplicitPrefixes ==
  { <<"m", "a", "n", "u", "s", ",">>, <<"m", "a", "n", "u", "s", " ">>, <<"g", "p", "t", " ", "d", "e", "v", ",">>, <<"g", "p", "t", " ", "d", "e", "v", " ">>, <<"g", "p", "t", "d", "e", "v", ",">>, <<"g", "p", "t", "d", "e", "v", " ">>,
    <<"a", "b", "a", "c", "u", "s", ",">>, <<"a", "b", "a", "c", "u", "s", " ">>, <<"z", "a", "p", "i", "e", "r", ",">>, <<"z", "a", "p", "i", "e", "r", " ">> }

\* the message of the last call has no explicit prefix and holds no keyword
NothingMatches ==
  LET messageLower == ToLowerCase(lastCall.message)
  IN /\ \A p \in ExplicitPrefixes : ~StartsWith(messageLower, p)
     /\ \A k \in manusWorkerKeywords \cup mioDevKeywords \cup abacusKeywords \cup zapierKeywords :
          ~Includes(messageLower, k)

\* C16: analyzeMessage returns a list that is not empty, has no agent twice,
\* holds agent ids only, in the order manus_worker, mio_dev, abacus, zapier; it
\* is [mio_dev] when no prefix and no keyword matches; a second call on the same
\* message returns the same list
C16_Classifier ==
  Classified =>
    LET result == lastCall.results[1]
    IN /\ Len(result) >= 1
       /\ \A j \in 1..Len(result) : result[j] \in AgentIds
       /\ \A j, k \in 1..Len(result) :
            j < k => IndexOf(ClassifierOrder, result[j]) < IndexOf(ClassifierOrder, result[k])
       /\ NothingMatches => result = <<"mio_dev">>
       /\ \A n \in 1..Len(lastCall.results) : lastCall.results[n] = result

\* C16 witness: a message without prefix or keyword was classified twice, as
\* [mio_dev] both times
C16_Witness ==
  /\ Classified
  /\ NothingMatches
  /\ lastCall.message # <<>>
  /\ lastCall.results = << <<"mio_dev">>, <<"mio_dev">> >>

\* a manual turn for one agent has returned
ManualReturned ==
  TurnReturned /\ turn.request.mode = "manual" /\ Len(turn.agentResponses) = 1

\* C17 as claimed: the text of a manual turn is the agent's content when the
\* outcome has no error; when it has one, the text is the formatted error and
\* does not contain the content
C17_ManualSynth ==
  ManualReturned =>
    LET response == turn.agentResponses[1]
        text == turn.result.message
    IN /\ response.error = Undefined => text = response.content
       /\ response.error # Undefined =>
            /\ text = "[X] **Errore:** " \o response.error
            /\ ~Includes(text, response.content)

\* the same for outcomes whose error, when set, is not the empty string
C17_NonEmptyError ==
  (ManualReturned /\ turn.agentResponses[1].error # "") => C17_ManualSynth

\* an auto turn with two or more outcomes has returned
AutoReturned ==
  TurnReturned /\ turn.request.mode = "auto" /\ Len(turn.agentResponses) >= 2

\* the outcomes of the turn that have an error, and those that have none
Errored == {k \in 1..Len(turn.agentResponses) : turn.agentResponses[k].error # Undefined}
Unerrored == {k \in 1..Len(turn.agentResponses) : turn.agentResponses[k].error = Undefined}

\* the section the claim asks for: tagged by whether the outcome has an error
TaggedSection(response) ==
  IF response.error # Undefined
  THEN "### [X] " \o getAgentName(response.agentId) \o "\n\nErrore: " \o response.error
         \o "\n\n---\n\n"
  ELSE "### [OK] " \o getAgentName(response.agentId) \o "\n\n" \o response.content
         \o "\n\n---\n\n"

RECURSIVE TaggedSections(_)
TaggedSections(responses) ==
  IF responses = <<>> THEN ""
  ELSE TaggedSection(responses[1]) \o TaggedSections(Tail(responses))

\* the summary the claim asks for: the outcomes without error as completed, the
\* outcomes with error, when there are any, as failed
TaggedSummary ==
  "## [#] Riepilogo\n\n"
    \o "- [OK] Agenti completati: " \o ToString(Cardinality(Unerrored)) \o "\n"
    \o (IF Errored # {}
        THEN "- [X] Agenti con errori: " \o ToString(Cardinality(Errored)) \o "\n"
        ELSE "")

\* C18 as claimed: the text of an auto turn with N >= 2 outcomes is the heading,
\* one section per outcome in order, tagged failure with the error when the
\* outcome has an error and success with the content when it has none, and the
\* summary counting the outcomes without and with error
C18_AutoSynth ==
  AutoReturned =>
    /\ Cardinality(Unerrored) + Cardinality(Errored) = Len(turn.agentResponses)
    /\ turn.result.message =
         "Ho coordinato **" \o ToString(Len(turn.agentResponses))
           \o " agenti** per elaborare la tua richiesta:\n\n"
           \o TaggedSections(turn.agentResponses) \o TaggedSummary

\* the same for turns none of whose outcomes has the empty string as error
C18_NonEmptyErrors ==
  (AutoReturned /\ \A k \in 1..Len(turn.agentResponses) : turn.agentResponses[k].error # "")
    => C18_AutoSynth

----------------------------------------------------------------------------
(* Bursts and reclamation *)

\* the times at which calls were made for an agent
CallTimes(agentId) == {k[2] : k \in {x \in DOMAIN rlCalls.at : x[1] = agentId}}

\* the calls that returned true for the agent at the times of a set
RECURSIVE AcceptedAt(_, _)
AcceptedAt(agentId, T) ==
  IF T = {} THEN 0
  ELSE LET t == CHOOSE x \in T : TRUE
       IN rlCalls.accepted[<<agentId, t>>] + AcceptedAt(agentId, T \ {t})

\* every call for the agent used the one window length and the one limit
OneLimit(agentId, limit, windowSeconds) ==
  /\ agentId \in DOMAIN rlCalls.windows
  /\ rlCalls.windows[agentId] = {windowSeconds}
  /\ rlCalls.limits[agentId] = {limit}

Expired(cache) == {k \in DOMAIN cache : cache[k].resetAt < now}
CleanupRan == rateLimitCache' # rateLimitCache /\ rlCalls' = rlCalls
SameAsUncleaned == Acquired => lastAcquire.result = lastAcquire.unreclaimed
\* what is live in the cache is what the uncleaned cache holds for the key
LiveEntriesAgree ==
  \A k \in DOMAIN rateLimitCache :
    /\ k \in DOMAIN rlCalls.uncleaned
    /\ rateLimitCache[k] = rlCalls.uncleaned[k]
OnlyLogicallyReset ==
  \A k \in DOMAIN rlCalls.uncleaned \ DOMAIN rateLimitCache :
    rlCalls.uncleaned[k].resetAt < now
CleanupDeletesExpired ==
  CleanupRan =>
    /\ DOMAIN rateLimitCache' = DOMAIN rateLimitCache \ Expired(rateLimitCache)
    /\ \A k \in DOMAIN rateLimitCache' : rateLimitCache'[k] = rateLimitCache[k]
    /\ \A k \in DOMAIN rateLimitCache' : ~(rateLimitCache'[k].resetAt < now')
C20_ReclamationTransparent ==
  /\ [](SameAsUncleaned /\ LiveEntriesAgree /\ OnlyLogicallyReset)
  /\ [][CleanupDeletesExpired]_vars
\* a call whose key was counted before and reclaimed since
C20_Witness ==
  /\ Acquired /\ lastAcquire.reclaimed
  /\ lastAcquire.result = lastAcquire.unreclaimed

----------------------------------------------------------------------------
(* SpecCache: guardianRouter procedures called one after the other while the
   clock advances and the three JSON files are edited, damaged or removed *)

MaxCacheTicks == 3
MaxAudit == 1

\* the clock advances by half a TTL
CacheStep == CACHE_TTL \div 2

CacheApiIndex(risk) ==
  [services |-> <<[id |-> "s1", display_name |-> "S1", base_url |-> "https://s1",
                   endpoints |-> <<Endpoint("e1", risk)>>]>>]
CachePermissions(maxRisk) ==
  [agents |-> <<[id |-> "mio_dev", display_name |-> "MIO",
                 rules |-> <<[endpoint_id |-> "e1", modes |-> {"read"},
                              max_risk |-> maxRisk, require_confirmation |-> FALSE]>>]>>,
   defaults |-> [unknown_endpoint |-> [allow |-> FALSE]]]

\* what each file can hold: a JSON document (one of two for the endpoint
\* catalog), text that does not parse, or nothing readable
FileContents ==
  [apiIndex |-> {JsonFile(CacheApiIndex(r)) : r \in {"low", "high"}} \cup {Malformed},
   permissions |-> {JsonFile(CachePermissions("medium")), Malformed, Unreadable},
   config |-> {JsonFile(GuardianConfig), Malformed}]

\* somebody edits a file of MIO_HUB_PATH
WriteFile ==
  /\ \E f \in DOMAIN files : \E c \in FileContents[f] \ {files[f]} :
       files' = [files EXCEPT ![f] = c]
  /\ UNCHANGED <<now, apiIndexCache, permissionsCache, guardianConfigCache, lastCacheUpdate,
                 guardianLog, lastEval, loads, rateLimitCache, mioAgentLogs, rlCalls,
                 lastAcquire, turns, turn, agentMessages, openaiKey, lastCall, retrying, loading>>

CacheTick ==
  /\ now < MaxCacheTicks * CacheStep
  /\ now' = now + CacheStep
  /\ UNCHANGED <<rateLimitCache, mioAgentLogs, rlCalls, lastAcquire, turns, turn, agentMessages, openaiKey, lastCall, retrying>>
  /\ UNCHANGED guardVars

CacheCheckPermission ==
  /\ Len(guardianLog) < MaxAudit
  /\ \E appendOk \in BOOLEAN : CheckPermissionOf("mio_dev", "e1", "read", appendOk)

InitCache ==
  /\ now = 0
  /\ files = [apiIndex |-> JsonFile(CacheApiIndex("low")),
              permissions |-> JsonFile(CachePermissions("medium")),
              config |-> JsonFile(GuardianConfig)]
  /\ apiIndexCache = Null /\ permissionsCache = Null /\ guardianConfigCache = Null
  /\ lastCacheUpdate = 0
  /\ guardianLog = <<>>
  /\ lastEval = NoEval
  /\ loads = NoLoads
  /\ loading = NoLoading
  /\ RateLimiterAtRest
  /\ OrchestratorAtRest

NextCache ==
  \/ CacheCheckPermission
  \/ GetEndpoints
  \/ GetConfig
  \/ WriteFile
  \/ CacheTick

SpecCache == InitCache /\ [][NextCache]_vars

----------------------------------------------------------------------------
(* Claims about the catalog cache *)

Loaded == lastEval.op # "none"
Handed == Loaded /\ ~lastEval.load.threw
CacheParts == {"apiIndex", "permissions", "config"}
CacheState == <<apiIndexCache, permissionsCache, guardianConfigCache, lastCacheUpdate>>

\* C21 catalog cache freshness: every part of a snapshot handed to a caller was
\* read from its file at most TTL before the call and never after it; a
\* call reads the files only when a cached part is missing or the cache is at
\* least TTL old, so no call within TTL of a load that succeeded reads them;
\* and the cache changes only inside a call, never when the clock advances
\* or a file is edited
FreshSnapshot ==
  Handed =>
    \A f \in CacheParts :
      /\ lastEval.load.readAt[f] >= 0
      /\ lastEval.load.readAt[f] <= lastEval.load.at
      /\ lastEval.load.at - lastEval.load.readAt[f] < CACHE_TTL
LazyRefresh ==
  Loaded =>
    /\ lastEval.load.readSource <=>
         (~lastEval.load.cacheFull \/ lastEval.load.age >= CACHE_TTL)
    /\ (/\ lastEval.load.lastSuccess >= 0
        /\ lastEval.load.at - lastEval.load.lastSuccess < CACHE_TTL)
         => ~lastEval.load.readSource
NeverProactive ==
  CacheState' # CacheState => (now' = now /\ files' = files /\ lastEval'.load.readSource)
EvalFailed == lastEval.op = "checkPermission" /\ lastEval.threw
C22_LoadFailureFatal ==
  /\ Loaded =>
       /\ lastEval.load.threw <=> (lastEval.load.readSource /\ ~lastEval.load.sourceOk)
       /\ lastEval.load.afterFailure => lastEval.load.readSource
       /\ lastEval.threw = lastEval.load.threw
  /\ EvalFailed =>
       /\ lastEval.error = "Failed to load Guardian configuration"
       /\ "result" \notin DOMAIN lastEval
       /\ "entry" \notin DOMAIN lastEval
       /\ Len(guardianLog) = lastEval.logBefore
\* a checkPermission that fails on a damaged file while an expired snapshot of
\* all three parts is cached, and after an earlier call failed too
C22_Witness ==
  /\ EvalFailed
  /\ lastEval.load.cacheFull /\ lastEval.load.age >= CACHE_TTL
  /\ lastEval.load.afterFailure
  /\ Len(guardianLog) = lastEval.logBefore

----------------------------------------------------------------------------
(* Persistence failures and the audit trail of a turn *)

\* a saveMessage of the i-th agent's turn threw
SaveFailed(i) ==
  \/ (Stepped(i, "saveDelegation") /\ ~SteppedOk(i, "saveDelegation"))
  \/ (Stepped(i, "saveResponse") /\ ~SteppedOk(i, "saveResponse"))

\* C23 as claimed: a turn returns to its caller whatever saveMessage did, and
\* an agent for which callAgent returned a response is reported with that
\* content and no error, also when saving the response message failed
C23_PersistenceSwallowed ==
  TurnReturned =>
    /\ turn.result.success = TRUE
    /\ \A i \in 1..Len(turn.agentsToUse) :
         InvocationReturned(i) =>
           /\ turn.agentResponses[i].error = Undefined
           /\ turn.agentResponses[i].content = ContentReturned(i)

\* what the code does instead: the failure stays inside the turn, and the agent
\* whose message could not be saved is reported as failed with the error of
\* saveMessage
C23_FailureBecomesOutcome ==
  TurnReturned =>
    /\ turn.result.success = TRUE
    /\ \A i \in 1..Len(turn.agentsToUse) :
         SaveFailed(i) =>
           /\ turn.agentResponses[i].error # Undefined
           /\ turn.agentResponses[i].content =
                "Errore durante l'esecuzione dell'agente " \o turn.agentsToUse[i]

\* the entries handed to logToGuardian for the i-th agent (0: for the turn)
AuditsOf(i) == {k \in 1..Len(turn.audits) : turn.audits[k].i = i}

\* the audit entry k was appended and its row is in the log
Appended(k) ==
  /\ turn.audits[k].written
  /\ turn.audits[k].row \in 1..Len(mioAgentLogs)
  /\ mioAgentLogs[turn.audits[k].row].agent = turn.audits[k].agent
  /\ mioAgentLogs[turn.audits[k].row].status = LogStatus(turn.audits[k].status)

\* C24 as claimed: when a turn has returned, every agent reported with an error
\* has an appended audit entry that names it, with status denied or error
C24_ErrorsAudited ==
  TurnReturned =>
    \A i \in 1..Len(turn.agentsToUse) :
      turn.agentResponses[i].error # Undefined =>
        \E k \in AuditsOf(i) :
          /\ turn.audits[k].agent = turn.agentsToUse[i]
          /\ turn.audits[k].status \in {"denied", "error"}
          /\ Appended(k)

\* what the code does: an entry is handed to logToGuardian for the failures
\* raised inside callAgent only; the failures of buildPrompt and saveMessage
\* reach the catch of orchestrate, which writes no entry
C24_OnlyCallAgentAudits ==
  TurnReturned =>
    \A i \in 1..Len(turn.agentsToUse) :
      /\ (Throttled(i) \/ (Stepped(i, "openai") /\ ~SteppedOk(i, "openai"))) =>
           \E k \in AuditsOf(i) :
             /\ turn.audits[k].agent = turn.agentsToUse[i]
             /\ turn.audits[k].status = "error"
      /\ (~Invoked(i) /\ Failed(i)) => AuditsOf(i) = {}
      /\ (InvocationReturned(i) /\ SaveFailed(i)) =>
           \A k \in AuditsOf(i) : turn.audits[k].status = "allowed"

----------------------------------------------------------------------------
(* SpecSinks: one checkPermission call, or checkRateLimit calls, or one turn of
   orchestrate, each with audit writes that succeed or fail *)

SinkCheckPermission ==
  /\ lastEval = NoEval /\ lastAcquire = NoAcquire /\ turn = NoTurn
  /\ \E agentId \in {"mio_dev", "ghost"}, endpointId \in EndpointIds, appendOk \in BOOLEAN :
       CheckPermissionOf(agentId, endpointId, "read", appendOk)

SinkCheckRateLimit == lastEval = NoEval /\ turn = NoTurn /\ RLCall

SinkOrchestrate ==
  /\ lastEval = NoEval
  /\ turn = NoTurn => lastAcquire = NoAcquire
  /\ NextOrch

InitSinks ==
  /\ now = 0
  /\ openaiKey \in BOOLEAN
  /\ \E E \in SUBSET AgentIds :
       /\ rateLimitCache = ExhaustedCache(E)
       /\ rlCalls = ExhaustedCalls(E)
  /\ lastAcquire = NoAcquire
  /\ turns = NoTurns
  /\ mioAgentLogs = <<>>
  /\ agentMessages = <<>>
  /\ turn = NoTurn
  /\ lastCall = NoCall
  /\ retrying = NoRetry
  /\ files = [apiIndex |-> JsonFile(CacheApiIndex("low")),
              permissions |-> JsonFile(CachePermissions("medium")),
              config |-> JsonFile(GuardianConfig)]
  /\ apiIndexCache = Null /\ permissionsCache = Null /\ guardianConfigCache = Null
  /\ lastCacheUpdate = 0
  /\ guardianLog = <<>>
  /\ lastEval = NoEval
  /\ loads = NoLoads
  /\ loading = NoLoading

NextSinks ==
  \/ SinkCheckPermission
  \/ SinkCheckRateLimit
  \/ SinkOrchestrate

SpecSinks == InitSinks /\ [][NextSinks]_vars

\* the outcome of the i-th agent as the steps of its turn give it, audit writes
\* left aside
OutcomeOfSteps(i) ==
  IF Failed(i)
  THEN LET k == CHOOSE k \in 1..Len(turn.steps) : turn.steps[k].i = i /\ ~turn.steps[k].ok
       IN [agentId |-> turn.agentsToUse[i],
           content |-> "Errore durante l'esecuzione dell'agente " \o turn.agentsToUse[i],
           error |-> turn.steps[k].value]
  ELSE [agentId |-> turn.agentsToUse[i], content |-> ContentReturned(i), error |-> Undefined]

\* an audit write of the turn failed
AuditWriteFailed == \E k \in 1..Len(turn.audits) : ~turn.audits[k].written

\* C25 audit-sink failures never reach the caller: checkPermission returns the
\* decision of its branch, checkRateLimit returns whether the counter is within
\* the limit, and orchestrate returns the result its steps give, one and the
\* same whether the audit writes of the call succeeded or failed; a call whose
\* audit write failed still returns
C25_SinkFailuresSwallowed ==
  /\ lastEval.op = "checkPermission" =>
       /\ ~lastEval.threw
       /\ lastEval.result = Decide(lastEval.snapshot.permissions, lastEval.snapshot.apiIndex,
                                   lastEval.input).result
  /\ Acquired =>
       LET key == RateLimitKey(lastAcquire.agentId, lastAcquire.at, lastAcquire.windowSeconds)
       IN /\ key \in DOMAIN rateLimitCache
          /\ lastAcquire.result = ~OverLimit(rateLimitCache[key].count, lastAcquire.limit)
  /\ turn.pc \notin {"idle", "done"} => ENABLED NextOrch
  /\ TurnReturned =>
       /\ turn.result.success = TRUE
       /\ turn.result.error = Undefined
       /\ turn.result.agentsUsed = turn.agentsToUse
       /\ turn.result.message = GenerateFinalResponse(turn.agentResponses, turn.request.mode)
       /\ Len(turn.agentResponses) = Len(turn.agentsToUse)
       /\ \A i \in 1..Len(turn.agentsToUse) :
            /\ turn.agentResponses[i].agentId = OutcomeOfSteps(i).agentId
            /\ turn.agentResponses[i].content = OutcomeOfSteps(i).content
            /\ turn.agentResponses[i].error = OutcomeOfSteps(i).error
  /\ (turn.pc = "done" /\ ~turn.selected) =>
       /\ turn.result.success = FALSE
       /\ turn.result.error = turn.error
\* a turn of two agents in which every audit write failed - the denial of the
\* first agent, the error of its callAgent, the success of the second and the
\* entry of the turn - returned the denial and the content of the second
C25_Witness ==
  /\ TurnReturned
  /\ Len(turn.agentsToUse) = 2
  /\ Throttled(1) /\ SteppedOk(2, "openai")
  /\ Len(turn.audits) = 4
  /\ \A k \in 1..Len(turn.audits) : ~turn.audits[k].written
  /\ mioAgentLogs = <<>>
  /\ turn.result.success = TRUE
  /\ turn.agentResponses[1].error = "Rate limit exceeded for agent"
  /\ turn.agentResponses[2].error = Undefined
  /\ turn.agentResponses[2].content = ContentReturned(2)

----------------------------------------------------------------------------
(* SpecLogs: guardianRouter.getLogs on every log file of a bounded family *)

MaxLines == 3

\* a line that is only white space
Blank == [tag |-> "blank"]

\* Array.prototype.slice(0, end) for an integer end
Slice(seq, end) ==
  LET n == Len(seq)
      to == IF end < 0 THEN (IF n + end < 0 THEN 0 ELSE n + end)
            ELSE IF end > n THEN n ELSE end
  IN SubSeq(seq, 1, to)

GetLogsKeepsOldest(limit, agent, status) ==
  LET entries == SelectSeq(guardianLog, LAMBDA l : "tag" \notin DOMAIN l)
      byAgent == IF Truthy(agent) THEN SelectSeq(entries, LAMBDA e : e.agent = agent)
                 ELSE entries
      byStatus == IF Truthy(status) THEN SelectSeq(byAgent, LAMBDA e : e.status = status)
                  ELSE byAgent
  IN Reverse(Slice(byStatus, limit))

\* the value getLogs returns (part_000:451-475); a file that does not exist
\* yet gives [], like an empty one
GetLogs(limit, agent, status) ==
  LET entries == SelectSeq(guardianLog, LAMBDA l : "tag" \notin DOMAIN l)
      byAgent == IF Truthy(agent) THEN SelectSeq(entries, LAMBDA e : e.agent = agent)
                 ELSE entries
      byStatus == IF Truthy(status) THEN SelectSeq(byAgent, LAMBDA e : e.status = status)
                  ELSE byAgent
  IN Slice(Reverse(byStatus), limit)

\* the inputs the validator of getLogs lets through: any number as limit (100
\* when missing), any string or nothing as agent, one of the three statuses or
\* nothing
LogLimits == {-1, 0, 1, 2, 100}
LogAgents == {Undefined, "", "mio_dev", "ghost"}
LogStatuses == {Undefined, "allowed", "denied", "error"}

\* guardianRouter.getLogs, one whole call
GetLogsCall ==
  /\ \E limit \in LogLimits, agent \in LogAgents, status \in LogStatuses :
       lastCall' = [op |-> "getLogs", limit |-> limit, agent |-> agent, status |-> status,
                    result |-> GetLogs(limit, agent, status)]
  /\ UNCHANGED <<now, turn, agentMessages, openaiKey, retrying>>
  /\ UNCHANGED rlVars
  /\ UNCHANGED <<mioAgentLogs>>
  /\ UNCHANGED guardVars

\* the k-th line of a log file: a line written by logApiCall, text that does
\* not parse, or a blank line
LogLines(k) ==
  {[timestamp |-> k, agent |-> a, endpoint_id |-> "e1", method |-> "GET",
    path |-> "/api/e1", status |-> s, reason |-> Undefined, risk_level |-> "low",
    require_confirmation |-> Undefined] : a \in TableAgentIds, s \in {"allowed", "denied"}}
  \cup {Malformed, Blank}
LogFiles ==
  UNION {{f \in [1..n -> UNION {LogLines(k) : k \in 1..n}] : \A k \in 1..n : f[k] \in LogLines(k)}
           : n \in 0..MaxLines}

InitLogs ==
  /\ now = 0
  /\ files = [apiIndex |-> Unreadable, permissions |-> Unreadable, config |-> Unreadable]
  /\ apiIndexCache = Null /\ permissionsCache = Null /\ guardianConfigCache = Null
  /\ lastCacheUpdate = 0
  /\ guardianLog \in LogFiles
  /\ lastEval = NoEval
  /\ loads = NoLoads
  /\ loading = NoLoading
  /\ RateLimiterAtRest
  /\ OrchestratorAtRest

NextLogs == lastCall = NoCall /\ GetLogsCall

SpecLogs == InitLogs /\ [][NextLogs]_vars

Queried == lastCall.op = "getLogs"

\* the lines of the log that are entries, oldest first, and those of them that
\* match the filters given to the call; an agent given as the empty string
\* is no filter (part_000:462)
LogEntries == SelectSeq(guardianLog, LAMBDA l : "tag" \notin DOMAIN l)
Matches(e) ==
  /\ Truthy(lastCall.agent) => e.agent = lastCall.agent
  /\ Truthy(lastCall.status) => e.status = lastCall.status
Matching == SelectSeq(LogEntries, Matches)
Capped(seq, limit) == SubSeq(seq, 1, IF Len(seq) < limit THEN Len(seq) ELSE limit)

----------------------------------------------------------------------------
(* The audit entry of checkPermission against the decision returned *)

\* C27 as claimed: the entry handed to the audit log has status allowed exactly
\* when the decision returned has allowed = true, and denied exactly when it
\* has allowed = false, in every branch
C27_AuditMatchesDecision ==
  Returned =>
    /\ (lastEval.entry.status = "allowed") <=> (lastEval.result.allowed = TRUE)
    /\ (lastEval.entry.status = "denied") <=> (lastEval.result.allowed = FALSE)

\* what the code does: the status follows the decision in every branch but the
\* unknown-endpoint branch, whose entry always says denied
C27_AllButUnknownEndpoint ==
  Returned =>
    /\ lastEval.branch # "unknown_endpoint" =>
         /\ (lastEval.entry.status = "allowed") <=> (lastEval.result.allowed = TRUE)
         /\ (lastEval.entry.status = "denied") <=> (lastEval.result.allowed = FALSE)
    /\ lastEval.branch = "unknown_endpoint" =>
         /\ lastEval.entry.status = "denied"
         /\ lastEval.result.allowed = DefaultsAllow

----------------------------------------------------------------------------
(* The order of the steps of an agent's turn *)

\* the step a of the i-th agent was taken before its step b, when both were
Before(i, a, b) == (Stepped(i, a) /\ Stepped(i, b)) => StepAt(i, a) < StepAt(i, b)

\* the API call or the mock, whichever was used for the i-th agent
InvokeStep(i) == IF Stepped(i, "openai") THEN "openai" ELSE "getMockResponse"

\* C28 as claimed: the steps of an agent come in the order build prompt, acquire
\* rate limit, record delegation, invoke, record response; the delegation is
\* recorded only after the acquisition, and an agent whose acquisition was
\* denied has no delegation message in the turn
C28_StepOrder ==
  TurnSelected =>
    \A i \in 1..Len(turn.agentsToUse) :
      /\ Stepped(i, "checkRateLimit") => Stepped(i, "buildPrompt")
      /\ Stepped(i, "saveDelegation") => Stepped(i, "checkRateLimit")
      /\ Before(i, "buildPrompt", "checkRateLimit")
      /\ Before(i, "checkRateLimit", "saveDelegation")
      /\ Before(i, "saveDelegation", InvokeStep(i))
      /\ Before(i, InvokeStep(i), "saveResponse")
      /\ Throttled(i) => DelegationRows(turn.agentsToUse[i]) = {}

\* what the code does: build prompt, record delegation, acquire, invoke, record
\* response; an agent whose acquisition was denied has its delegation recorded
C28_DelegationBeforeAcquire ==
  TurnSelected =>
    \A i \in 1..Len(turn.agentsToUse) :
      /\ Stepped(i, "saveDelegation") => Stepped(i, "buildPrompt")
      /\ Stepped(i, "checkRateLimit") => SteppedOk(i, "saveDelegation")
      /\ Stepped(i, InvokeStep(i)) => SteppedOk(i, "checkRateLimit")
      /\ Stepped(i, "saveResponse") => Stepped(i, InvokeStep(i))
      /\ Before(i, "buildPrompt", "saveDelegation")
      /\ Before(i, "saveDelegation", "checkRateLimit")
      /\ Before(i, "checkRateLimit", InvokeStep(i))
      /\ Before(i, InvokeStep(i), "saveResponse")
      /\ Throttled(i) => Cardinality(DelegationRows(turn.agentsToUse[i])) = 1

----------------------------------------------------------------------------
(* The audit entries of callAgent and of the turn *)

\* the statuses of the entries handed to logToGuardian for the i-th agent, in
\* the order they were handed
AuditStatuses(i) ==
  LET mine == SelectSeq(turn.audits, LAMBDA a : a.i = i)
  IN [k \in 1..Len(mine) |-> mine[k].status]

\* C29 as claimed: when a turn has returned, every agent callAgent was called
\* for has exactly one audit entry, naming it, handed to the audit sink: with
\* status allowed when callAgent returned a response, with status error when
\* it failed
C29_OneEntryPerAttempt ==
  TurnReturned =>
    \A i \in 1..Len(turn.agentsToUse) :
      Invoked(i) =>
        /\ \A k \in AuditsOf(i) : turn.audits[k].agent = turn.agentsToUse[i]
        /\ AuditStatuses(i) = IF InvocationReturned(i) THEN <<"allowed">> ELSE <<"error">>

\* what the code does: one entry on the two paths through the API call, two
\* entries (denied, then error) on the rate-limited path, none on the mock path
C29_EntriesByPath ==
  TurnReturned =>
    \A i \in 1..Len(turn.agentsToUse) :
      Invoked(i) =>
        /\ \A k \in AuditsOf(i) : turn.audits[k].agent = turn.agentsToUse[i]
        /\ AuditStatuses(i) =
             IF Throttled(i) THEN <<"denied", "error">>
             ELSE IF Stepped(i, "getMockResponse") THEN <<>>
             ELSE IF SteppedOk(i, "openai") THEN <<"allowed">>
             ELSE <<"error">>

\* the rows of the log written for the turn as a whole
TurnRows == {r \in 1..Len(mioAgentLogs) : mioAgentLogs[r].agent = "orchestrator"}

\* C30 as claimed: a turn that has returned has appended exactly one entry with
\* agent orchestrator, behind every entry of its agents, with status allowed
\* exactly when success is true and error exactly when it is false
C30_Original ==
  turn.pc = "done" =>
    /\ Cardinality(TurnRows) = 1
    /\ TurnRows = {Len(mioAgentLogs)}
    /\ (mioAgentLogs[Len(mioAgentLogs)].status = LogStatus("allowed"))
         <=> (turn.result.success = TRUE)
    /\ (mioAgentLogs[Len(mioAgentLogs)].status = LogStatus("error"))
         <=> (turn.result.success = FALSE)

\* C30 amended: a turn hands exactly one entry with agent orchestrator to the
\* audit sink, as its last step: after the outcome of the last chosen agent was
\* collected and after every entry of an agent of the turn; its status is
\* allowed exactly when success is true and error exactly when it is false;
\* the row is the last of the log when the write succeeded, and the log has no
\* row of the turn when it failed
C30_OneTurnEntry ==
  /\ turn.pc \notin {"idle", "done"} => (AuditsOf(0) = {} /\ TurnRows = {})
  /\ turn.pc = "done" =>
       LET k == Len(turn.audits)
       IN /\ AuditsOf(0) = {k}
          /\ turn.audits[k].agent = "orchestrator"
          /\ turn.audits[k].after = Len(turn.steps)
          /\ turn.audits[k].outcomes = Len(turn.agentsToUse)
          /\ Len(turn.agentResponses) = Len(turn.agentsToUse)
          /\ (turn.audits[k].status = "allowed") <=> (turn.result.success = TRUE)
          /\ (turn.audits[k].status = "error") <=> (turn.result.success = FALSE)
          /\ turn.audits[k].written =>
               /\ Appended(k)
               /\ TurnRows = {Len(mioAgentLogs)}
               /\ turn.audits[k].row = Len(mioAgentLogs)
          /\ ~turn.audits[k].written => TurnRows = {}
\* a turn of two agents, one answered and one failed in the API call, whose
\* entries allowed, error and the entry of the turn are the three rows of the
\* log, in this order
C30_Witness ==
  /\ TurnReturned
  /\ Len(turn.agentsToUse) = 2
  /\ SteppedOk(1, "openai") /\ Stepped(2, "openai") /\ ~SteppedOk(2, "openai")
  /\ Len(turn.audits) = 3 /\ Len(mioAgentLogs) = 3
  /\ turn.audits[3].agent = "orchestrator" /\ turn.audits[3].status = "allowed"
  /\ mioAgentLogs[3].agent = "orchestrator"
  /\ mioAgentLogs[1].agent = turn.agentsToUse[1]
  /\ mioAgentLogs[2].agent = turn.agentsToUse[2]
  /\ turn.result.success = TRUE

----------------------------------------------------------------------------
(* Failure classification by the synthesizer *)

\* the text that renders every outcome by whether its agent's turn raised a
\* failure: a failed agent by its error, the others by their content
ClassifiedText(responses, mode) ==
  LET n == Len(responses)
      response == responses[1]
  IN IF mode = "manual"
     THEN IF n = 0 THEN "Nessuna risposta dall'agente."
          ELSE IF Failed(1) THEN "[X] **Errore:** " \o response.error
          ELSE response.content
     ELSE IF n = 0 THEN "Nessun agente ha risposto alla richiesta."
     ELSE IF n = 1
     THEN IF Failed(1)
          THEN "[X] **Errore da " \o response.agentId \o ":** " \o response.error
          ELSE "**" \o getAgentName(response.agentId) \o "** ha elaborato la richiesta:\n\n"
                 \o response.content
     ELSE "Ho coordinato **" \o ToString(n) \o " agenti** per elaborare la tua richiesta:\n\n"
            \o TaggedSections(responses) \o TaggedSummary

\* an outcome of the turn carries the empty string as its error
EmptyErrorMessage ==
  \E k \in 1..Len(turn.agentResponses) : turn.agentResponses[k].error = ""

\* C31 as claimed: in the text of a turn that has returned, every agent whose
\* turn raised a failure is rendered by its error and counted as failed, every
\* other agent is rendered by its content and counted as completed, whatever
\* the message of the failure is
C31_FailureClassification ==
  TurnReturned =>
    /\ \A i \in 1..Len(turn.agentResponses) :
         Failed(i) <=> (turn.agentResponses[i].error # Undefined)
    /\ Cardinality(Errored) = Cardinality({i \in 1..Len(turn.agentsToUse) : Failed(i)})
    /\ turn.result.message = ClassifiedText(turn.agentResponses, turn.request.mode)

\* what the code does: the classification is right for every turn in which no
\* failure has the empty message, and a failure with the empty message is
\* rendered by the content of its outcome and counted as completed
C31_NonEmptyMessages ==
  (TurnReturned /\ ~EmptyErrorMessage) =>
    turn.result.message = ClassifiedText(turn.agentResponses, turn.request.mode)

----------------------------------------------------------------------------
(* SpecRace: calls of loadGuardianConfig that overlap.  A call is suspended at
   the await of part_000:178 between its cache test and its assignments, so
   other calls, file edits and clock ticks run in between *)

\* clock steps of one TTL taken while loads overlap
MaxRaceTicks == 1
\* calls of loadGuardianConfig that go to the source
MaxLoads == 3

\* the callers whose loads may overlap; each calls loadGuardianConfig again
\* and again, one call at a time
Loaders == {"A", "B"}
CacheFiles == {"apiIndex", "permissions", "config"}

\* what the files hold while loads overlap: one of two endpoint catalogs, and a
\* permission table that parses, does not parse or cannot be read
RaceContents ==
  [apiIndex |-> {JsonFile(CacheApiIndex(r)) : r \in {"low", "high"}},
   permissions |-> {JsonFile(CachePermissions("medium")), Malformed, Unreadable},
   config |-> {JsonFile(GuardianConfig)}]

RaceWrite ==
  /\ \E f \in DOMAIN files : \E c \in RaceContents[f] \ {files[f]} :
       files' = [files EXCEPT ![f] = c]
  /\ UNCHANGED <<now, apiIndexCache, permissionsCache, guardianConfigCache, lastCacheUpdate,
                 guardianLog, lastEval, loads, rateLimitCache, mioAgentLogs, rlCalls,
                 lastAcquire, turns, turn, agentMessages, openaiKey, lastCall, retrying, loading>>

RaceTick ==
  /\ now < MaxRaceTicks * CACHE_TTL
  /\ now' = now + CACHE_TTL
  /\ UNCHANGED <<rateLimitCache, mioAgentLogs, rlCalls, lastAcquire, turns, turn, agentMessages,
                 openaiKey, lastCall, retrying>>
  /\ UNCHANGED guardVars

NotCalled == [pc |-> "idle", id |-> 0, at |-> 0, data |-> Null, changed |-> FALSE,
              served |-> [f \in CacheFiles |-> 0]]

\* part_000:172-175: the caller takes the time and tests the cache; a full and
\* fresh cache is returned at once, otherwise the three reads are started
RaceStart ==
  /\ \E p \in Loaders :
       /\ loading.who[p].pc \in {"idle", "returned", "threw"}
       /\ IF CacheFresh
          THEN loading' = [loading EXCEPT !.who[p] =
                 [NotCalled EXCEPT !.pc = "returned",
                                   !.served = [f \in CacheFiles |-> loading.origin[f]]]]
          ELSE /\ loading.count < MaxLoads
               /\ loading' = [loading EXCEPT
                    !.count = @ + 1,
                    !.who[p] = [NotCalled EXCEPT !.pc = "reading", !.at = now,
                                                 !.id = loading.count + 1]]
  /\ UNCHANGED <<now, files, apiIndexCache, permissionsCache, guardianConfigCache,
                 lastCacheUpdate, guardianLog, lastEval, loads, rateLimitCache,
                 mioAgentLogs, rlCalls, lastAcquire, turns, turn, agentMessages, openaiKey,
                 lastCall, retrying>>

\* part_000:178-182: the Promise.all of the three readFile calls settles; a file
\* that cannot be read rejects it and the catch of 190-193 throws, otherwise the
\* caller holds the three texts.  The three reads are taken at one moment.
RaceRead ==
  /\ \E p \in Loaders :
       /\ loading.who[p].pc = "reading"
       /\ loading' = [loading EXCEPT !.who[p] =
            IF \E f \in DOMAIN files : files[f] = Unreadable
            THEN [@ EXCEPT !.pc = "threw", !.at = 0]
            ELSE [@ EXCEPT !.pc = "parsing", !.data = files]]
  /\ UNCHANGED <<now, files, apiIndexCache, permissionsCache, guardianConfigCache,
                 lastCacheUpdate, guardianLog, lastEval, loads, rateLimitCache,
                 mioAgentLogs, rlCalls, lastAcquire, turns, turn, agentMessages, openaiKey,
                 lastCall, retrying>>

\* part_000:184-189, the code after the await, which runs without suspension:
\* the three JSON.parse assignments in order, the stamp with the time taken at
\* the start of the call, and the return; the first text that does not parse
\* throws after the earlier assignments were made
ParseInto(d, at) ==
  IF d.apiIndex = Malformed
  THEN LoadFailed(apiIndexCache, permissionsCache, guardianConfigCache, {})
  ELSE IF d.permissions = Malformed
  THEN LoadFailed(d.apiIndex.value, permissionsCache, guardianConfigCache, {"apiIndex"})
  ELSE IF d.config = Malformed
  THEN LoadFailed(d.apiIndex.value, d.permissions.value, guardianConfigCache,
                  {"apiIndex", "permissions"})
  ELSE [threw |-> FALSE, readSource |-> TRUE,
        assigned |-> {"apiIndex", "permissions", "config"},
        apiIndex |-> d.apiIndex.value, permissions |-> d.permissions.value,
        config |-> d.config.value, stamp |-> at]

RaceAssign ==
  /\ \E p \in Loaders :
       /\ loading.who[p].pc = "parsing"
       /\ LET load == ParseInto(loading.who[p].data, loading.who[p].at)
              origin == [f \in DOMAIN loading.origin |->
                           IF f \in load.assigned \/ (f = "stamp" /\ ~load.threw)
                           THEN loading.who[p].id ELSE loading.origin[f]]
          IN /\ apiIndexCache' = load.apiIndex
             /\ permissionsCache' = load.permissions
             /\ guardianConfigCache' = load.config
             /\ lastCacheUpdate' = load.stamp
             /\ loading' = [who |-> [loading.who EXCEPT ![p] =
                              [@ EXCEPT !.pc = IF load.threw THEN "threw" ELSE "returned",
                                        !.at = 0, !.data = Null,
                                        !.changed = load.assigned # {},
                                        !.served = [f \in CacheFiles |->
                                                      IF load.threw THEN 0
                                                      ELSE loading.who[p].id]]],
                            count |-> loading.count,
                            partial |-> IF load.threw /\ load.assigned # {}
                                        THEN loading.partial \cup {loading.who[p].id}
                                        ELSE loading.partial,
                            origin |-> origin]
  /\ UNCHANGED <<now, files, guardianLog, lastEval, loads, rateLimitCache,
                 mioAgentLogs, rlCalls, lastAcquire, turns, turn, agentMessages, openaiKey,
                 lastCall, retrying>>

InitRace ==
  /\ now = 0
  /\ files = [apiIndex |-> JsonFile(CacheApiIndex("low")),
              permissions |-> JsonFile(CachePermissions("medium")),
              config |-> JsonFile(GuardianConfig)]
  /\ apiIndexCache = Null /\ permissionsCache = Null /\ guardianConfigCache = Null
  /\ lastCacheUpdate = 0
  /\ guardianLog = <<>>
  /\ lastEval = NoEval
  /\ loads = NoLoads
  /\ loading = [NoLoading EXCEPT !.who = [p \in Loaders |-> NotCalled]]
  /\ RateLimiterAtRest
  /\ OrchestratorAtRest

NextRace ==
  \/ RaceStart
  \/ RaceRead
  \/ RaceAssign
  \/ RaceWrite
  \/ RaceTick

SpecRace == InitRace /\ [][NextRace]_vars

----------------------------------------------------------------------------
(* Claims about overlapping and failing loads *)

\* a call of loadGuardianConfig by p has thrown, or returned
LoadThrew(p) == loading.who[p].pc = "threw"
LoadReturned(p) == loading.who[p].pc = "returned"
\* the cache holds something that a load put there
CacheWritten == \E f \in CacheFiles : loading.origin[f] # 0
\* the cached parts and the stamp are the work of one load
OneLoad == \A f, g \in DOMAIN loading.origin : loading.origin[f] = loading.origin[g]
\* caller p was handed the cache and its parts are the work of two loads
ServedMix(p) ==
  /\ LoadReturned(p)
  /\ \E f, g \in CacheFiles : loading.who[p].served[f] # loading.who[p].served[g]

\* C32: when loads overlap or a load fails part-way, the three cached parts come
\* from one and the same successful load and the cache timestamp belongs to that
\* load; a failed load leaves the cached snapshot unchanged; a snapshot that is
\* returned is never a mix of two loads
C32_SnapshotConsistency ==
  /\ CacheWritten => OneLoad
  /\ \A p \in Loaders : LoadThrew(p) => ~loading.who[p].changed
  /\ \A p \in Loaders : ~ServedMix(p)

\* what the code keeps: a load that returns writes the three parts and the stamp
\* together, so overlapping loads alone never mix (the last to resume wins); a
\* cached part that is not from the load of the stamp was left by a load that threw
C32_MixOnlyByFailedLoad ==
  \A f \in CacheFiles :
    loading.origin[f] \in {loading.origin.stamp} \cup loading.partial

\* a caller is handed a cache whose endpoint catalog is from a load that threw and
\* whose permission table is from the load that stamped the cache
C32_MixServed ==
  \E p \in Loaders :
    /\ ServedMix(p)
    /\ loading.who[p].served.apiIndex \in loading.partial
    /\ loading.who[p].served.permissions = loading.origin.stamp

----------------------------------------------------------------------------
(* SpecTurns: turns that run side by side and call checkRateLimit through
   callAgent (base.ts:37).  checkRateLimit runs without suspension from its
   first line to the comparison of guardian.ts:133; its only await is the
   logToGuardian of a denial, where other turns, the cleanup timer and the
   clock run before it returns false *)

Turns == {"t1", "t2"}

NotAcquiring == [pc |-> "idle", agentId |-> Undefined, entry |-> Undefined, result |-> Undefined]

\* the cache and the history after n calls for the agent in the window of time 0
PriorCache(agentId, n) ==
  IF n = 0 THEN <<>>
  ELSE [k \in {<<agentId, 0>>} |-> [count |-> n, resetAt |-> AGENT_RATE_WINDOW * 1000]]
PriorCalls(agentId, n) ==
  IF n = 0 THEN NoCalls
  ELSE [at |-> [k \in {<<agentId, 0>>} |-> n],
        accepted |-> [k \in {<<agentId, 0>>} |->
                        IF n <= AGENT_RATE_LIMIT THEN n ELSE AGENT_RATE_LIMIT],
        windows |-> [a \in {agentId} |-> {AGENT_RATE_WINDOW}],
        limits |-> [a \in {agentId} |-> {AGENT_RATE_LIMIT}],
        uncleaned |-> PriorCache(agentId, n)]

\* guardian.ts:116-133 for a turn that calls checkRateLimit(agentId, 10, 60): the
\* entry is made or reset, counted and compared in one run; over the limit the
\* turn is suspended in logToGuardian, otherwise the call returns true
TurnAcquire ==
  /\ turns.made < MaxCalls
  /\ \E p \in Turns, agentId \in RLAgentIds :
       LET key == RateLimitKey(agentId, now, AGENT_RATE_WINDOW)
           cache == CountedEntry(agentId, AGENT_RATE_WINDOW)
           over == OverLimit(cache.count, AGENT_RATE_LIMIT)
       IN /\ turns.who[p].pc \in {"idle", "returned"}
          /\ rateLimitCache' = [k \in DOMAIN rateLimitCache \cup {key} |->
                                  IF k = key THEN cache ELSE rateLimitCache[k]]
          /\ rlCalls' = Recorded(agentId, AGENT_RATE_LIMIT, AGENT_RATE_WINDOW, ~over)
          /\ turns' = [who |-> [turns.who EXCEPT ![p] =
                             IF over
                             THEN [pc |-> "logging", agentId |-> agentId,
                                   entry |-> RateLimitEntry(agentId, AGENT_RATE_LIMIT,
                                                            AGENT_RATE_WINDOW, cache),
                                   result |-> Undefined]
                             ELSE [pc |-> "returned", agentId |-> agentId,
                                   entry |-> Undefined, result |-> TRUE]],
                           made |-> turns.made + 1]
  /\ UNCHANGED <<now, mioAgentLogs, lastAcquire, turn, agentMessages, openaiKey, lastCall, retrying>>
  /\ UNCHANGED guardVars

\* guardian.ts:134-143: the logToGuardian of a denial settles, with the row
\* written or the error swallowed, and the call returns false
TurnLogged ==
  /\ \E p \in Turns, writeOk \in BOOLEAN :
       /\ turns.who[p].pc = "logging"
       /\ LogToGuardian(turns.who[p].entry, writeOk)
       /\ turns' = [turns EXCEPT !.who[p].pc = "returned",
                                         !.who[p].result = FALSE]
  /\ UNCHANGED <<now, rateLimitCache, rlCalls, lastAcquire, turn, agentMessages, openaiKey,
                 lastCall, retrying>>
  /\ UNCHANGED guardVars

\* the clock advances by half a window
TurnsTick ==
  /\ now < MaxTicks * (AGENT_RATE_WINDOW * 500)
  /\ now' = now + AGENT_RATE_WINDOW * 500
  /\ UNCHANGED <<mioAgentLogs, turn, agentMessages, openaiKey, lastCall, retrying>>
  /\ UNCHANGED rlVars
  /\ UNCHANGED guardVars

InitTurns ==
  /\ now = 0
  /\ \E n \in {0, AGENT_RATE_LIMIT - 1} :
       /\ rateLimitCache = PriorCache("mio_dev", n)
       /\ rlCalls = PriorCalls("mio_dev", n)
  /\ mioAgentLogs = <<>>
  /\ lastAcquire = NoAcquire
  /\ turns = [NoTurns EXCEPT !.who = [p \in Turns |-> NotAcquiring]]
  /\ OrchestratorAtRest
  /\ GuardianAtRest

NextTurns ==
  \/ TurnAcquire
  \/ TurnLogged
  \/ RLCleanup
  \/ TurnsTick

SpecTurns == InitTurns /\ [][NextTurns]_vars

\* the calls made, and the calls that returned true, for the agent at times of
\* the window of index w
MadeIn(agentId, w) ==
  LET S == {k \in DOMAIN rlCalls.at :
              k[1] = agentId /\ WindowIndex(k[2], AGENT_RATE_WINDOW) = w}
      RECURSIVE Sum(_)
      Sum(T) == IF T = {} THEN 0
                ELSE LET k == CHOOSE x \in T : TRUE IN rlCalls.at[k] + Sum(T \ {k})
  IN Sum(S)
AcceptedIn(agentId, w) ==
  LET S == {k \in DOMAIN rlCalls.accepted :
              k[1] = agentId /\ WindowIndex(k[2], AGENT_RATE_WINDOW) = w}
      RECURSIVE Sum(_)
      Sum(T) == IF T = {} THEN 0
                ELSE LET k == CHOOSE x \in T : TRUE IN rlCalls.accepted[k] + Sum(T \ {k})
  IN Sum(S)
WindowsSeen == {WindowIndex(k[2], AGENT_RATE_WINDOW) : k \in DOMAIN rlCalls.at}

\* C33: when turns for one agent interleave at their suspension points, every
\* checkRateLimit call raises the counter of its window by exactly one, and the
\* calls that return true for one agent in one window never exceed the limit
C33_NoLostIncrements ==
  /\ \A k \in DOMAIN rateLimitCache : rateLimitCache[k].count = MadeIn(k[1], k[2])
  /\ \A a \in RLAgentIds : \A w \in WindowsSeen : AcceptedIn(a, w) <= AGENT_RATE_LIMIT
  /\ \A p \in Turns : turns.who[p].pc = "returned" /\ turns.who[p].result = FALSE
       => AcceptedIn(turns.who[p].agentId,
                     turns.who[p].entry.metadata.resetAt \div (AGENT_RATE_WINDOW * 1000) - 1)
            = AGENT_RATE_LIMIT

\* C33 witness: two turns are suspended in the denial of the same agent at once,
\* after a third call took the last place of the window
C33_Witness ==
  /\ \A p \in Turns : turns.who[p].pc = "logging" /\ turns.who[p].agentId = "mio_dev"
  /\ rateLimitCache[<<"mio_dev", 0>>].count = AGENT_RATE_LIMIT + 2
  /\ MadeIn("mio_dev", 0) = AGENT_RATE_LIMIT + 2
  /\ AcceptedIn("mio_dev", 0) = AGENT_RATE_LIMIT

----------------------------------------------------------------------------
(* Claims about the counter of a window *)

\* every call made for the agent used the window length ws
FixedWindow(agentId, ws) ==
  agentId \in DOMAIN rlCalls.windows /\ rlCalls.windows[agentId] = {ws}

\* the entry of key k is the one of the window the clock is in
Live(k, ws) == k[2] = WindowIndex(now, ws)

\* the counter of every entry of an agent called with one window length is the
\* number of calls made for the agent in the entry's window, and the entry's
\* resetAt is not before the end of that window, so that `now > cache.resetAt`
\* is false for the entry of the current window
CounterIsCalls ==
  \A k \in DOMAIN rateLimitCache : \A ws \in WindowSeconds :
    FixedWindow(k[1], ws) =>
      /\ rateLimitCache[k].count = CallsInWindow(k[1], k[2] * ws * 1000, ws)
      /\ rateLimitCache[k].resetAt >= (k[2] + 1) * ws * 1000
      /\ Live(k, ws) => ~(now > rateLimitCache[k].resetAt)

\* no step lowers the counter of an entry or removes the entry of the current window
CounterGrows ==
  \A k \in DOMAIN rateLimitCache : \A ws \in WindowSeconds :
    (FixedWindow(k[1], ws) /\ FixedWindow(k[1], ws)') =>
      /\ k \in DOMAIN rateLimitCache' => rateLimitCache'[k].count >= rateLimitCache[k].count
      /\ Live(k, ws)' => k \in DOMAIN rateLimitCache'

\* C34: for a fixed windowSeconds and a clock that does not go back, the counter
\* of (agent, window) is the number of checkRateLimit calls, accepted and
\* rejected, made for the agent in the window; it never decreases; resetAt is
\* never before the end of the window, so the reset never fires on a live entry
C34_WindowCounter == []CounterIsCalls /\ [][CounterGrows]_vars

\* C34 witness: an agent always called with a window of two seconds has been
\* called in two different seconds of one window, once accepted and once
\* rejected, and its counter is two
C34_Witness ==
  /\ FixedWindow("mio_dev", 2)
  /\ now = 1000
  /\ <<"mio_dev", 0>> \in DOMAIN rateLimitCache
  /\ rateLimitCache[<<"mio_dev", 0>>].count = 2
  /\ <<"mio_dev", 0>> \in DOMAIN rlCalls.at /\ <<"mio_dev", 1000>> \in DOMAIN rlCalls.at
  /\ rlCalls.accepted[<<"mio_dev", 0>>] = 1 /\ rlCalls.accepted[<<"mio_dev", 1000>>] = 0

----------------------------------------------------------------------------
(* SpecDup: one checkPermission call of mio_dev over permission tables in which
   mio_dev has several rules, some of them for the same endpoint *)

\* longest rule list with duplicates
MaxDupRules == 2

\* the rules a list is made of: any rule for e1 that grants read, and one for e2
DupRule ==
  {r \in Rule : r.endpoint_id = "e1" /\ "read" \in r.modes}
  \cup {[endpoint_id |-> "e2", modes |-> {"read"}, max_risk |-> "medium",
         require_confirmation |-> FALSE]}

DupTables ==
  {[agents |-> <<[id |-> "mio_dev", display_name |-> "MIO", rules |-> rs]>>,
    defaults |-> [unknown_endpoint |-> [allow |-> FALSE]]]
     : rs \in SeqUpTo(DupRule, MaxDupRules) \ SeqUpTo(DupRule, 1)}

InitDup ==
  /\ now = 0
  /\ \E p \in DupTables, a \in ApiIndexes :
       files = [apiIndex |-> JsonFile(a), permissions |-> JsonFile(p),
                config |-> JsonFile(GuardianConfig)]
  /\ apiIndexCache = Null /\ permissionsCache = Null /\ guardianConfigCache = Null
  /\ lastCacheUpdate = 0
  /\ guardianLog = <<>>
  /\ lastEval = NoEval
  /\ loads = NoLoads
  /\ loading = NoLoading
  /\ RateLimiterAtRest
  /\ OrchestratorAtRest

DupCheckPermission ==
  /\ lastEval = NoEval
  /\ \E endpointId \in EndpointIds, mode \in Modes, appendOk \in BOOLEAN :
       CheckPermissionOf("mio_dev", endpointId, mode, appendOk)

NextDup == DupCheckPermission

SpecDup == InitDup /\ [][NextDup]_vars

\* the rules of the requesting agent that name the requested endpoint, by position
RulePositions ==
  {j \in 1..Len(RequestRules) : RequestRules[j].endpoint_id = lastEval.input.endpointId}
FirstPosition == CHOOSE j \in RulePositions : \A k \in RulePositions : j <= k

\* the permission table of the call with the requesting agent's rule list
\* replaced by rs
WithRules(rs) ==
  [lastEval.snapshot.permissions EXCEPT
     !.agents = [i \in DOMAIN @ |->
                   IF @[i].id = lastEval.input.agentId THEN [@[i] EXCEPT !.rules = rs]
                   ELSE @[i]]]

\* C35: when the agent has several rules for the requested endpoint, the
\* decision (allow or deny, reason and confirmation flag) is the one the first
\* of them in list order gives alone
C35_FirstMatch ==
  (Returned /\ AgentKnown /\ Cardinality(RulePositions) > 1) =>
    lastEval.result =
      Decide(WithRules(<<RequestRules[FirstPosition]>>), lastEval.snapshot.apiIndex,
             lastEval.input).result

\* C35 witness: the first rule for the endpoint allows the write with
\* confirmation and the second one grants no write; the call was allowed with
\* confirmation
C35_Witness ==
  /\ Returned /\ AgentKnown /\ EndpointKnown
  /\ RulePositions = {1, 2}
  /\ lastEval.input.mode = "write"
  /\ "write" \in RequestRules[1].modes /\ RequestRules[1].require_confirmation
  /\ "write" \notin RequestRules[2].modes
  /\ lastEval.result.allowed /\ lastEval.result.require_confirmation

----------------------------------------------------------------------------
(* SpecHard: one call of the hard-coded permission check of guardian.ts *)

\* guardian.ts:58-79
permissions ==
  [mio_dev |-> [read |-> <<"github.repo.contents", "github.repo.file">>,
                write |-> <<"github.repo.file.upsert", "mihub.deploy.vercel", "mihub.build">>],
   abacus |-> [read |-> <<"logs.guardian", "logs.mihub", "metrics.health",
                          "metrics.analytics">>,
               write |-> <<>>],
   zapier |-> [read |-> <<"integrations.zapier">>,
               write |-> <<"webhooks.trigger", "integrations.zapier">>],
   manus_worker |-> [read |-> <<"tickets.read">>, write |-> <<"tickets.create">>],
   orchestrator |-> [read |-> <<"all">>, write |-> <<"agents.call">>]]

\* Array.prototype.includes
ArrayIncludes(arr, x) == \E i \in 1..Len(arr) : arr[i] = x

\* guardian.ts:81-87 and 98: the boolean returned
HasPermission(agentId, resource, action) ==
  /\ agentId \in DOMAIN permissions
  /\ \/ ArrayIncludes(permissions[agentId][action], resource)
     \/ ArrayIncludes(permissions[agentId][action], "all")

\* guardian.ts:89-96: the entries handed to logToGuardian, none for an agent
\* outside the table, which is only warned about on the console (82-85)
DenialEntries(agentId, resource, action) ==
  IF agentId \in DOMAIN permissions /\ ~HasPermission(agentId, resource, action)
  THEN <<[agent |-> agentId, method |-> ToUpperCase(action), path |-> resource,
          status |-> "denied",
          reason |-> "No " \o action \o " permission for " \o resource,
          metadata |-> Undefined]>>
  ELSE <<>>

\* the inputs of the call: the agents of the table and one outside it, the
\* resources the table names and one it does not
HardAgentIds == DOMAIN permissions \cup {"ghost"}
Resources ==
  UNION {{permissions[a][act][i] : i \in 1..Len(permissions[a][act])} :
           a \in DOMAIN permissions, act \in Modes}
  \cup {"tickets.delete"}

\* checkPermission(agentId, resource, action) of guardian.ts, one whole call
HardCheckPermission ==
  /\ lastCall = NoCall
  /\ \E agentId \in HardAgentIds, resource \in Resources, action \in Modes :
       LET entries == DenialEntries(agentId, resource, action)
       IN \E writeOk \in IF entries = <<>> THEN {TRUE} ELSE BOOLEAN :
            /\ IF entries = <<>> THEN mioAgentLogs' = mioAgentLogs
               ELSE LogToGuardian(entries[1], writeOk)
            /\ lastCall' = [op |-> "checkPermission", agentId |-> agentId,
                            resource |-> resource, action |-> action,
                            result |-> HasPermission(agentId, resource, action),
                            entries |-> entries, writeOk |-> writeOk,
                            logBefore |-> Len(mioAgentLogs)]
  /\ UNCHANGED <<now, turn, agentMessages, openaiKey, retrying>>
  /\ UNCHANGED rlVars
  /\ UNCHANGED guardVars

InitHard ==
  /\ now = 0
  /\ RateLimiterAtRest
  /\ OrchestratorAtRest
  /\ GuardianAtRest

NextHard == HardCheckPermission

SpecHard == InitHard /\ [][NextHard]_vars

HardChecked == lastCall.op = "checkPermission"
HardKnown == lastCall.agentId \in DOMAIN permissions
\* the resource, or `all`, is listed for the action of the call
HardListed ==
  \E i \in 1..Len(permissions[lastCall.agentId][lastCall.action]) :
    permissions[lastCall.agentId][lastCall.action][i] \in {lastCall.resource, "all"}
\* the call handed one entry with status denied, for its agent, to logToGuardian
HardDenialAudited ==
  /\ Len(lastCall.entries) = 1
  /\ lastCall.entries[1].status = "denied"
  /\ lastCall.entries[1].agent = lastCall.agentId

\* C36: every false result of the hard-coded check, for a known agent without
\* the permission and for an unknown agent alike, is audited with status denied
\* before the call returns (read as: the entry is handed to the audit sink);
\* the result is true only for a known agent with the resource, or `all`,
\* listed for the action
C36_DenialsAudited ==
  HardChecked =>
    /\ ~lastCall.result => HardDenialAudited
    /\ lastCall.result => (HardKnown /\ HardListed)

\* what the code does: the denial of a known agent is handed to the sink and
\* written when the write succeeds, the denial of an unknown agent is handed to
\* nobody, and the result is true exactly for a known agent with the resource,
\* or `all`, listed
C36_KnownDenialsAudited ==
  HardChecked =>
    /\ lastCall.result = (HardKnown /\ HardListed)
    /\ (~lastCall.result /\ HardKnown) =>
         /\ HardDenialAudited
         /\ lastCall.writeOk =>
              /\ Len(mioAgentLogs) = lastCall.logBefore + 1
              /\ mioAgentLogs[Len(mioAgentLogs)].status = "warning"
    /\ ~HardKnown => /\ lastCall.entries = <<>>
                     /\ mioAgentLogs = <<>>

----------------------------------------------------------------------------
(* SpecRetry: one call of callAgentWithRetry (base.ts:199-223) around callAgent *)

\* largest maxRetries of a call
MaxRetries == 2

RetryPrompt == BuildPrompt("mio_dev", MsgLogs, UserId, <<>>).prompt

\* Math.pow(2, attempt - 1) * 1000
Backoff(attempt) == (2 ^ (attempt - 1)) * 1000

ShouldWaitAlways(attempt, maxRetries) == TRUE

\* attempt < maxRetries
ShouldWait(attempt, maxRetries) == attempt < maxRetries

\* the for statement's test before an attempt, and the throw after the loop;
\* lastError is <<>> for null and holds the error's message otherwise
LoopOrThrow(r) ==
  IF r.attempt <= r.maxRetries
  THEN [r EXCEPT !.pc = "checkRateLimit"]
  ELSE [r EXCEPT !.pc = "done", !.raised = TRUE,
                 !.error = IF r.lastError = <<>> THEN "Failed after retries"
                           ELSE r.lastError[1]]

\* callAgent returned: the wrapper returns its response
Returns(r, response) ==
  [r EXCEPT !.pc = "done", !.raised = FALSE, !.response = <<response>>,
            !.attempts = Append(@, [ok |-> TRUE, error |-> Undefined, at |-> now])]

\* callAgentWithRetry(agentId, prompt, maxRetries) is called
RetryStart ==
  /\ retrying = NoRetry
  /\ \E maxRetries \in 0..MaxRetries :
       retrying' = LoopOrThrow([pc |-> "start", agentId |-> "mio_dev",
                                maxRetries |-> maxRetries, attempt |-> 1,
                                lastError |-> <<>>, raised |-> FALSE,
                                error |-> Undefined, response |-> <<>>,
                                attempts |-> <<>>, acquisitions |-> <<>>, waits |-> <<>>,
                                thrown |-> Undefined,
                                before |-> TotalCalls(rlCalls)])
  /\ UNCHANGED <<now, mioAgentLogs, turn, agentMessages, openaiKey, lastCall>>
  /\ UNCHANGED rlVars
  /\ UNCHANGED guardVars

\* callAgent, base.ts:37-40, for the attempt
RetryAcquire ==
  /\ retrying.pc = "checkRateLimit"
  /\ \E writeOk \in IF Denies(retrying.agentId) THEN BOOLEAN ELSE {TRUE} :
       CheckRateLimit(retrying.agentId, AGENT_RATE_LIMIT, AGENT_RATE_WINDOW, writeOk)
  /\ retrying' = [retrying EXCEPT
       !.pc = IF Denies(retrying.agentId) THEN "callAgentCatch" ELSE "invoke",
       !.thrown = IF Denies(retrying.agentId) THEN "Rate limit exceeded for agent"
                  ELSE Undefined,
       !.acquisitions = Append(@, [attempt |-> retrying.attempt,
                                   ok |-> ~Denies(retrying.agentId)])]
  /\ UNCHANGED <<now, turn, agentMessages, openaiKey, lastCall>>
  /\ UNCHANGED guardVars

\* callAgent, base.ts:43-68: the mock response without a key, else the API call
RetryInvoke ==
  /\ retrying.pc = "invoke"
  /\ \E reply \in ApiReplies(retrying.agentId) :
       retrying' =
         IF ~openaiKey
         THEN Returns(retrying, GetMockResponse(retrying.agentId, RetryPrompt))
         ELSE IF reply.ok
         THEN [retrying EXCEPT !.pc = "logSuccess",
                               !.response = <<AgentCallResponse(RetryPrompt, reply.content)>>]
         ELSE [retrying EXCEPT !.pc = "callAgentCatch", !.thrown = reply.message]
  /\ UNCHANGED <<now, mioAgentLogs, turn, agentMessages, openaiKey, lastCall>>
  /\ UNCHANGED rlVars
  /\ UNCHANGED guardVars

\* callAgent, base.ts:75-97: the success is logged and the response returned
RetryLogSuccess ==
  /\ retrying.pc = "logSuccess"
  /\ \E writeOk \in BOOLEAN :
       LogToGuardian(CallEntry(retrying.agentId, "allowed", Undefined,
                               [model |-> RetryPrompt.model, responseTime |-> 0,
                                tokens |-> Undefined]), writeOk)
  /\ retrying' = Returns(retrying, retrying.response[1])
  /\ UNCHANGED <<now, turn, agentMessages, openaiKey, lastCall>>
  /\ UNCHANGED rlVars
  /\ UNCHANGED guardVars

\* callAgent, base.ts:98-111, logs the error and throws it again; the catch of
\* base.ts:209-218 keeps it as lastError and starts the timer of the backoff
\* unless this was the last attempt
RetryCatch ==
  /\ retrying.pc = "callAgentCatch"
  /\ \E writeOk \in BOOLEAN :
       LogToGuardian(CallEntry(retrying.agentId, "error", retrying.thrown, Undefined), writeOk)
  /\ LET failed == [retrying EXCEPT
                      !.lastError = <<retrying.thrown>>,
                      !.attempts = Append(@, [ok |-> FALSE, error |-> retrying.thrown,
                                              at |-> now])]
     IN retrying' =
          IF ShouldWait(retrying.attempt, retrying.maxRetries)
          THEN [failed EXCEPT !.pc = "wait",
                              !.waits = Append(@, [after |-> Len(failed.attempts),
                                                   delay |-> Backoff(retrying.attempt)])]
          ELSE LoopOrThrow([failed EXCEPT !.attempt = @ + 1])
  /\ UNCHANGED <<now, turn, agentMessages, openaiKey, lastCall>>
  /\ UNCHANGED rlVars
  /\ UNCHANGED guardVars

\* the timer of base.ts:216 fires after the delay and the loop goes on
RetryWait ==
  /\ retrying.pc = "wait"
  /\ now' = now + retrying.waits[Len(retrying.waits)].delay
  /\ retrying' = LoopOrThrow([retrying EXCEPT !.attempt = @ + 1])
  /\ UNCHANGED <<mioAgentLogs, turn, agentMessages, openaiKey, lastCall>>
  /\ UNCHANGED rlVars
  /\ UNCHANGED guardVars

\* the agent has made no call, or all but one, or all of the calls of its window
InitRetry ==
  /\ now = 0
  /\ openaiKey \in BOOLEAN
  /\ \E n \in {0, AGENT_RATE_LIMIT - 1, AGENT_RATE_LIMIT} :
       /\ rateLimitCache = PriorCache("mio_dev", n)
       /\ rlCalls = PriorCalls("mio_dev", n)
  /\ mioAgentLogs = <<>>
  /\ lastAcquire = NoAcquire
  /\ turns = NoTurns
  /\ turn = NoTurn /\ agentMessages = <<>> /\ lastCall = NoCall
  /\ retrying = NoRetry
  /\ GuardianAtRest

NextRetry ==
  \/ RetryStart
  \/ RetryAcquire
  \/ RetryInvoke
  \/ RetryLogSuccess
  \/ RetryCatch
  \/ RetryWait

SpecRetry == InitRetry /\ [][NextRetry]_vars

\* every attempt that was started comes back and every timer fires
SpecRetryFair == SpecRetry /\ WF_vars(NextRetry)

\* the call is in progress or over; it is over
RetryCalled == retrying.pc # "idle"
RetryDone == retrying.pc = "done"
\* the attempts that came back failed, all of them or all but the last
AllFailed(n) == \A k \in 1..n : ~retrying.attempts[k].ok

\* what holds at every moment of a call
RetrySafety ==
  RetryCalled =>
    LET started == Len(retrying.acquisitions)
        ended == Len(retrying.attempts)
        waits == Len(retrying.waits)
    IN \* at most maxRetries attempts, one after the other
       /\ started <= retrying.maxRetries
       /\ ended <= started /\ started <= ended + 1
       \* each attempt made its own checkRateLimit call
       /\ \A k \in 1..started : retrying.acquisitions[k].attempt = k
       /\ TotalCalls(rlCalls) = retrying.before + started
       \* no attempt follows a success
       /\ AllFailed(ended - 1)
       /\ (ended > 0 /\ retrying.attempts[ended].ok) => (RetryDone /\ started = ended)
       \* the waits lie between attempts and double from one second
       /\ \A j \in 1..waits :
            /\ retrying.waits[j].after = j
            /\ j < retrying.maxRetries
            /\ retrying.waits[j].delay = Backoff(j)
       /\ waits <= ended
       /\ retrying.pc = "wait" => waits = ended
       /\ RetryDone =>
            /\ started = ended
            /\ ended > 0 => waits = ended - 1
            /\ ~retrying.raised =>
                 /\ ended > 0 /\ retrying.attempts[ended].ok
                 /\ Len(retrying.response) = 1
            /\ retrying.raised =>
                 /\ retrying.response = <<>>
                 /\ ended = retrying.maxRetries
                 /\ AllFailed(ended)
                 /\ ended > 0 => retrying.error = retrying.attempts[ended].error

----------------------------------------------------------------------------
(* SpecConv: turns of two users that run side by side, as far as the
   conversation goes: orchestrate names the conversation (part_001:61), builds
   the prompt from getConversation (part_001:85, base.ts:508), records the
   delegation (part_001:88-95), calls the agent and records its response
   (part_001:102-109).  The id of one user is a part of the other's *)

\* turns started in a behaviour, and clock steps of one millisecond
MaxTurns == 2
MaxConvTicks == 1

Users == {<<"u", "1">>, <<"u", "1", "1">>}

\* turns.started lists the turns in the order they began and turns.rows names,
\* for each row of agent_messages, the turn that wrote it
NotStarted == [pc |-> "idle"]

\* part_001:59-72 for a turn in manual mode with target mio_dev
ConvStart ==
  /\ turns.made < MaxTurns
  /\ \E p \in Turns, userId \in Users :
       /\ turns.who[p].pc \in {"idle", "done"}
       /\ turns' = [turns EXCEPT
            !.made = @ + 1,
            !.started = Append(@, [userId |-> userId, at |-> now,
                                   conversationId |-> ConversationId(userId, now)]),
            !.who[p] = [pc |-> "buildPrompt", no |-> turns.made + 1, userId |-> userId,
                        agentId |-> "mio_dev", startedAt |-> now,
                        conversationId |-> ConversationId(userId, now),
                        conversation |-> <<>>]]
  /\ UNCHANGED <<now, rateLimitCache, rlCalls, lastAcquire, mioAgentLogs, turn,
                 agentMessages, openaiKey, lastCall, retrying>>
  /\ UNCHANGED guardVars

\* part_001:85: buildPrompt puts getConversation(userId, agentId, 10) into the prompt
ConvBuildPrompt ==
  /\ \E p \in Turns :
       /\ turns.who[p].pc = "buildPrompt"
       /\ turns' = [turns EXCEPT
            !.who[p].pc = "saveDelegation",
            !.who[p].conversation =
               GetConversation(turns.who[p].userId, turns.who[p].agentId, PromptHistory, "ok")]
  /\ UNCHANGED <<now, rateLimitCache, rlCalls, lastAcquire, mioAgentLogs, turn,
                 agentMessages, openaiKey, lastCall, retrying>>
  /\ UNCHANGED guardVars

\* part_001:88-95
ConvSaveDelegation ==
  /\ \E p \in Turns :
       /\ turns.who[p].pc = "saveDelegation"
       /\ agentMessages' =
            SaveMessage([conversationId |-> turns.who[p].conversationId, sender |-> "mio",
                         content |-> MsgLogs, recipients |-> <<turns.who[p].agentId>>,
                         metadata |-> [delegatedFrom |-> "user",
                                       originalMessage |-> MsgLogs]], "ok").table
       /\ turns' = [turns EXCEPT !.who[p].pc = "callAgent",
                                 !.rows = Append(@, turns.who[p].no)]
  /\ UNCHANGED <<now, rateLimitCache, rlCalls, lastAcquire, mioAgentLogs, turn, openaiKey,
                 lastCall, retrying>>
  /\ UNCHANGED guardVars

\* part_001:99-109: callAgent answers and the response is recorded, or it throws
\* and the turn goes on without a row
ConvSaveResponse ==
  /\ \E p \in Turns, answered \in BOOLEAN :
       /\ turns.who[p].pc = "callAgent"
       /\ agentMessages' =
            IF answered
            THEN SaveMessage([conversationId |-> turns.who[p].conversationId,
                              sender |-> turns.who[p].agentId,
                              content |-> "reply of " \o turns.who[p].agentId,
                              recipients |-> <<"mio">>,
                              metadata |-> [model |-> "mock", responseTime |-> 100,
                                            mock |-> TRUE]], "ok").table
            ELSE agentMessages
       /\ turns' = [turns EXCEPT !.who[p].pc = "done",
                                 !.rows = IF answered THEN Append(@, turns.who[p].no) ELSE @]
  /\ UNCHANGED <<now, rateLimitCache, rlCalls, lastAcquire, mioAgentLogs, turn, openaiKey,
                 lastCall, retrying>>
  /\ UNCHANGED guardVars

ConvTick ==
  /\ now < MaxConvTicks
  /\ now' = now + 1
  /\ UNCHANGED <<mioAgentLogs, turn, agentMessages, openaiKey, lastCall, retrying>>
  /\ UNCHANGED rlVars
  /\ UNCHANGED guardVars

InitConv ==
  /\ now = 0
  /\ rateLimitCache = <<>> /\ rlCalls = NoCalls /\ lastAcquire = NoAcquire
  /\ mioAgentLogs = <<>>
  /\ turns = [who |-> [p \in Turns |-> NotStarted], made |-> 0, started |-> <<>>,
              rows |-> <<>>]
  /\ OrchestratorAtRest
  /\ GuardianAtRest

NextConv ==
  \/ ConvStart
  \/ ConvBuildPrompt
  \/ ConvSaveDelegation
  \/ ConvSaveResponse
  \/ ConvTick

SpecConv == InitConv /\ [][NextConv]_vars

\* the conversation id names a conversation created by the user
CreatedBy(conversationId, userId) ==
  \E t \in 0..MaxConvTicks : conversationId = ConversationId(userId, t)

\* the turns that have built their prompt
Prompted == {p \in Turns : turns.who[p].pc \in {"saveDelegation", "callAgent", "done"}}

Ascending(messages) ==
  \A i, j \in 1..Len(messages) : i < j => messages[i].createdAt <= messages[j].createdAt

\* C38: what getConversation returns for a turn of userId, and so the prompt of
\* the turn, holds only messages of conversations created by userId, sent by
\* `user` or the agent, oldest first, even when another user's id contains userId
C38_ConversationIsolation ==
  \A p \in Prompted :
    LET c == turns.who[p].conversation
    IN /\ \A k \in 1..Len(c) :
            /\ CreatedBy(c[k].conversationId, turns.who[p].userId)
            /\ c[k].sender \in {"user", turns.who[p].agentId}
       /\ Ascending(c)

\* what the code keeps: the messages returned are rows whose conversation id
\* contains the user id as a substring, sent by `user` or the agent, oldest first
C38_SubstringMatch ==
  \A p \in Prompted :
    LET c == turns.who[p].conversation
    IN /\ \A k \in 1..Len(c) :
            /\ Includes(c[k].conversationId, turns.who[p].userId)
            /\ c[k].sender \in {"user", turns.who[p].agentId}
            /\ \E r \in 1..Len(agentMessages) :
                 /\ agentMessages[r].conversationId = c[k].conversationId
                 /\ agentMessages[r].sender = c[k].sender
       /\ Ascending(c)

\* the prompt of a turn of u1 holds the agent's reply to u11
C38_Leak ==
  \E p \in Prompted :
    /\ turns.who[p].userId = <<"u", "1">>
    /\ \E k \in 1..Len(turns.who[p].conversation) :
         CreatedBy(turns.who[p].conversation[k].conversationId, <<"u", "1", "1">>)

\* C39: any two turns, also two turns of one user that start at the same time,
\* have different conversation ids, so that rows written by different turns
\* never carry the same conversation id
C39_UniqueConversationIds ==
  /\ \A i, j \in 1..Len(turns.started) :
       i # j => turns.started[i].conversationId # turns.started[j].conversationId
  /\ \A a, b \in 1..Len(turns.rows) :
       turns.rows[a] # turns.rows[b]
         => agentMessages[a].conversationId # agentMessages[b].conversationId

\* what the code keeps: turns of different users, and turns of one user that
\* start at different milliseconds, have different conversation ids
C39_UniquePerUserAndTime ==
  \A i, j \in 1..Len(turns.started) :
    (i # j /\ (turns.started[i].userId # turns.started[j].userId
               \/ turns.started[i].at # turns.started[j].at))
      => turns.started[i].conversationId # turns.started[j].conversationId

\* two turns of one user started in the same millisecond and both wrote rows
\* under the one conversation id
C39_SharedId ==
  /\ Len(turns.started) = 2
  /\ turns.started[1].userId = turns.started[2].userId
  /\ turns.started[1].conversationId = turns.started[2].conversationId
  /\ \E a, b \in 1..Len(turns.rows) :
       /\ turns.rows[a] # turns.rows[b]
       /\ agentMessages[a].conversationId = agentMessages[b].conversationId

----------------------------------------------------------------------------
(* SpecTiers: one checkPermission call over catalogs whose risk tiers may be
   names outside riskLevels, or missing *)

TierNames == Risks \cup {"critical", Undefined}

InitTiers ==
  /\ now = 0
  /\ \E risk \in TierNames, maxRisk \in TierNames :
       files = [apiIndex |-> JsonFile(CacheApiIndex(risk)),
                permissions |-> JsonFile(CachePermissions(maxRisk)),
                config |-> JsonFile(GuardianConfig)]
  /\ apiIndexCache = Null /\ permissionsCache = Null /\ guardianConfigCache = Null
  /\ lastCacheUpdate = 0
  /\ guardianLog = <<>>
  /\ lastEval = NoEval
  /\ loads = NoLoads
  /\ loading = NoLoading
  /\ RateLimiterAtRest
  /\ OrchestratorAtRest

NextTiers == lastEval = NoEval /\ CheckPermission

SpecTiers == InitTiers /\ [][NextTiers]_vars

\* the call reached the risk check: agent and endpoint are known and the first
\* rule for the endpoint grants the mode
RiskChecked ==
  /\ Returned /\ AgentKnown /\ EndpointKnown
  /\ \E r \in MatchingRules : lastEval.input.mode \in r.modes
Unrecognised(tier) == tier \notin Risks

\* C40: when the endpoint's risk or the rule's max_risk is not one of low,
\* medium and high, the call is never allowed
C40_FailsClosed ==
  (Returned /\ AgentKnown /\ EndpointKnown) =>
    \A r \in MatchingRules :
      (Unrecognised(RequestEndpoint.risk) \/ Unrecognised(r.max_risk))
        => ~lastEval.result.allowed

\* what the code does: an unrecognised max_risk denies every endpoint of a
\* recognised risk, and an endpoint of unrecognised risk passes the risk check
\* under every rule
C40_UnrecognisedTiers ==
  RiskChecked =>
    \A r \in MatchingRules :
      /\ (Unrecognised(r.max_risk) /\ ~Unrecognised(RequestEndpoint.risk))
           => ~lastEval.result.allowed
      /\ Unrecognised(RequestEndpoint.risk) => lastEval.result.allowed

\* an endpoint of risk `critical` is allowed under a rule with max_risk low
C40_CriticalAllowed ==
  /\ RiskChecked
  /\ RequestEndpoint.risk = "critical"
  /\ \E r \in MatchingRules : r.max_risk = "low"
  /\ lastEval.result.allowed

====
